---------------------------- MODULE Spec2Model ----------------------------
(***************************************************************************)
(* VoyageAI scoring and profiling core.                                    *)
(*                                                                         *)
(* ConfidenceEngine (src/src/recommendation_engine.py), TravelDNAProfiler  *)
(* (src/src/travel_dna.py), GeminiExplainer (src/src/gemini_client.py)     *)
(* and the Streamlit application (src/app.py) as state machines.           *)
(*                                                                         *)
(* Number representation.  The Python code computes on floats.  Here       *)
(*   - a quantity on the 0..10 scale (destination baselines, affinities,   *)
(*     profile dimensions) is an integer number of thousandths;            *)
(*   - a component score is an exact fraction <<n, d>> of thousandths      *)
(*     (value n/d thousandths, d > 0); <<0, 0>> stands for a raised        *)
(*     ZeroDivisionError;                                                  *)
(*   - costs and budgets are integers in units of 100 USD (every budget    *)
(*     formula is a ratio of costs, hence unit-free);                      *)
(*   - np.log and np.exp are fixed-point series, four decimal digits.      *)
(***************************************************************************)
EXTENDS Integers, Sequences, FiniteSets, TLC

VARIABLES
    destinations,      \* the catalog handed to the engine (list of dicts)
    user_prefs,        \* the preferences dict of the current request
    recommendations,   \* result of calculate_recommendations, <<>> before any call
    engine_raised,     \* exception propagated out of the latest pass: "idle" before any
                       \* pass, "none" if it returned
    pass_clock,        \* month datetime.now() reported to the latest pass, 0 if not read
    breakdown,         \* result of the latest get_recommendation_breakdown call
    explainer,         \* GeminiExplainer instance: mock_mode
    explain_request,   \* arguments of generate_trip_explanation and the collaborator's reply
    explanation,       \* its result (or the raised exception)
    scores,            \* argument dict of _calculate_confidence_score
    confidence_score,  \* its result, in thousandths of the 0..100 scale, -1 before any call
    curve_in,          \* argument of _apply_confidence_curve (thousandths of 0..100)
    curve_out,         \* its result, -1 before any call
    curve_prev,        \* <<argument, result>> of the previous curve evaluation
    profiler,          \* TravelDNAProfiler instance: questions and personality_centroids
    user_responses,    \* the quiz answers collected so far (question id -> answer)
    analyzed,          \* argument of the latest analyze_responses call
    profile,           \* the returned TravelDNAProfile (or the raised exception)
    first_profile,     \* what the first analysis of user_responses returned
    calls,             \* number of engine / profiler calls made so far
    session_state,     \* st.session_state: quiz_completed, current_step, show_recommendations
    app,               \* the VoyageAIApp built by the latest script run: user_profile,
                       \* recommendations
    app_error          \* exception that reached the handler of main() in the latest run

vars == <<destinations, user_prefs, recommendations, engine_raised, pass_clock,
          breakdown, explainer, explain_request,
          explanation, scores, confidence_score, curve_in, curve_out, curve_prev, profiler,
          user_responses, analyzed, profile, first_profile, calls,
          session_state, app, app_error>>

engineVars == <<destinations, user_prefs, recommendations, engine_raised,
                pass_clock, breakdown>>
explainVars == <<explainer, explain_request, explanation>>
confVars == <<scores, confidence_score>>
curveVars == <<curve_in, curve_out, curve_prev>>
profilerVars == <<profiler, user_responses, analyzed, profile, first_profile>>
appVars == <<session_state, app, app_error>>

---------------------------------------------------------------------------
(* Bounds of the model.                                                    *)

MaxCatalog == 2        \* longest catalog explored
MaxInterests == 2      \* longest interests list explored
MaxCalls == 3          \* calls made on one engine / profiler instance
MaxAnalyses == 1       \* submissions of one quiz

---------------------------------------------------------------------------
(* Arithmetic helpers.                                                     *)

Abs(x) == IF x < 0 THEN -x ELSE x
Min2(a, b) == IF a <= b THEN a ELSE b
Max2(a, b) == IF a >= b THEN a ELSE b

\* fractions <<n, d>> of thousandths, d > 0
Frac(n, d) == <<n, d>>
Num(n) == <<n, 1>>
ZeroDivision == <<0, 0>>
IsRaised(f) == f[2] = 0
FLeq(a, b) == a[1] * b[2] <= b[1] * a[2]
FLt(a, b) == a[1] * b[2] < b[1] * a[2]
FEq(a, b) == a[1] * b[2] = b[1] * a[2]
FMin(a, b) == IF FLeq(a, b) THEN a ELSE b
FMax(a, b) == IF FLeq(a, b) THEN b ELSE a
\* float -> thousandths, truncated
Milli(f) == f[1] \div f[2]

RECURSIVE SumSeq(_)
SumSeq(s) == IF s = <<>> THEN 0 ELSE Head(s) + SumSeq(Tail(s))

RECURSIVE SetToSeq(_)
SetToSeq(S) == IF S = {} THEN <<>>
               ELSE LET x == CHOOSE y \in S : TRUE IN <<x>> \o SetToSeq(S \ {x})

---------------------------------------------------------------------------
(* ConfidenceEngine: component scores.                                     *)

Dimensions == {"adventure", "comfort", "culture", "luxury", "nature", "urban", "social"}

ScoreKeys == {"budget_score", "dna_match", "weather_score", "crowd_score",
              "category_score", "seasonal_score"}

\* A string such as "Spring, Summer, Fall" is a sequence of tokens: words,
\* "," and " ".  str.split(",")
RECURSIVE Split(_)
Split(s) ==
    IF \A i \in 1..Len(s) : s[i] # ","
    THEN <<s>>
    ELSE LET k == CHOOSE i \in 1..Len(s) :
                      s[i] = "," /\ \A j \in 1..(i - 1) : s[j] # ","
         IN  <<SubSeq(s, 1, k - 1)>> \o Split(SubSeq(s, k + 1, Len(s)))

\* str.strip()
RECURSIVE Strip(_)
Strip(s) ==
    IF s = <<>> THEN s
    ELSE IF Head(s) = " " THEN Strip(Tail(s))
    ELSE IF s[Len(s)] = " " THEN Strip(SubSeq(s, 1, Len(s) - 1))
    ELSE s

\* [s.strip() for s in best_season.split(",")], as the set of its members
SeasonParts(best_season) ==
    LET parts == Split(best_season)
    IN  {Strip(parts[i]) : i \in 1..Len(parts)}

\* month and end_month are the months of the first and second date of a pair.
\* travel_dates is None / an empty tuple ("none"), a tuple of at least two
\* dates ("range", month = month of the first), or any other truthy value
\* ("other": a bare date, a one-element tuple, a tuple of non-dates).
\* `now` is the month datetime.now() reports when the call reads the clock.
TravelMonth(travel_dates, now) ==
    IF travel_dates.kind = "range" THEN travel_dates.month ELSE now

month_to_season(m) ==
    IF m \in {12, 1, 2} THEN "Winter"
    ELSE IF m \in {3, 4, 5} THEN "Spring"
    ELSE IF m \in {6, 7, 8} THEN "Summer"
    ELSE IF m \in {9, 10, 11} THEN "Fall"
    ELSE "Spring"

season_order == <<"Winter", "Spring", "Summer", "Fall">>

SeasonIndex(s) == CHOOSE i \in 1..Len(season_order) : season_order[i] = s

\* seasonal boost in tenths: peak 0.8, shoulder 1.0, off-season 1.2
_get_seasonal_boost(travel_dates, now) ==
    LET month == TravelMonth(travel_dates, now)
    IN  IF month \in {6, 7, 8, 12} THEN 8
        ELSE IF month \in {4, 5, 9, 10, 11} THEN 10
        ELSE 12

\* variant: every cost up to the minimum scores 10
BudgetScoreFlatBonus(destination_cost, user_min, user_max) ==
    IF destination_cost <= user_min
    THEN IF user_min = 0 THEN ZeroDivision ELSE Num(10000)
    ELSE IF destination_cost <= user_max
    THEN Frac(10000 * (user_max - user_min) - 4000 * (destination_cost - user_min),
              user_max - user_min)
    ELSE IF user_max = 0 THEN ZeroDivision
         ELSE FMax(Num(0), Frac(6000 * user_max, destination_cost))

\* variant: the bonus below the minimum grows with budget_min / cost
BudgetScoreInvertedBonus(destination_cost, user_min, user_max) ==
    IF destination_cost <= user_min
    THEN IF destination_cost = 0 THEN ZeroDivision
         ELSE Frac(8000 * destination_cost + 2000 * user_min, destination_cost)
    ELSE IF destination_cost <= user_max
    THEN Frac(10000 * (user_max - user_min) - 4000 * (destination_cost - user_min),
              user_max - user_min)
    ELSE IF user_max = 0 THEN ZeroDivision
         ELSE FMax(Num(0), Frac(6000 * user_max, destination_cost))

\* variant: the decay beyond the maximum starts from 8 instead of 6
BudgetScoreDecayFromEight(destination_cost, user_min, user_max) ==
    IF destination_cost <= user_min
    THEN IF user_min = 0 THEN ZeroDivision
         ELSE Frac(8000 * user_min + 2000 * destination_cost, user_min)
    ELSE IF destination_cost <= user_max
    THEN Frac(10000 * (user_max - user_min) - 4000 * (destination_cost - user_min),
              user_max - user_min)
    ELSE IF user_max = 0 THEN ZeroDivision
         ELSE FMax(Num(0), Frac(8000 * user_max, destination_cost))

\* variant: the decay beyond the maximum divides by the overshoot twice
BudgetScoreSquaredDecay(destination_cost, user_min, user_max) ==
    IF destination_cost <= user_min
    THEN IF user_min = 0 THEN ZeroDivision
         ELSE Frac(8000 * user_min + 2000 * destination_cost, user_min)
    ELSE IF destination_cost <= user_max
    THEN Frac(10000 * (user_max - user_min) - 4000 * (destination_cost - user_min),
              user_max - user_min)
    ELSE IF user_max = 0 THEN ZeroDivision
         ELSE FMax(Num(0), Frac(6000 * user_max * user_max,
                                destination_cost * destination_cost))

_calculate_budget_score(destination_cost, user_min, user_max) ==
    IF destination_cost <= user_min
    THEN IF user_min = 0 THEN ZeroDivision
         ELSE Frac(8000 * user_min + 2000 * destination_cost, user_min)
    ELSE IF destination_cost <= user_max
    THEN \* normalized = (cost - min) / (max - min); 10 - normalized * 4
         Frac(10000 * (user_max - user_min) - 4000 * (destination_cost - user_min),
              user_max - user_min)
    ELSE \* overshoot = cost / max; max(0, 6 * (1 / overshoot))
         IF user_max = 0 THEN ZeroDivision
         ELSE FMax(Num(0), Frac(6000 * user_max, destination_cost))

\* variant: the final min(10.0, ...) is missing
WeatherScoreUncapped(dest_weather, user_priority, travel_dates, now) ==
    LET adjusted_score == Frac(dest_weather * (10 + user_priority), 20)
        seasonal_boost == _get_seasonal_boost(travel_dates, now)
        boosted == Frac(adjusted_score[1] * (70 + 3 * seasonal_boost),
                        adjusted_score[2] * 100)
    IN  IF travel_dates.kind # "none" THEN boosted ELSE adjusted_score

_calculate_weather_score(dest_weather, user_priority, travel_dates, now) ==
    LET \* base * (0.5 + 0.5 * priority / 10) = base * (10 + priority) / 20
        adjusted_score == Frac(dest_weather * (10 + user_priority), 20)
        seasonal_boost == _get_seasonal_boost(travel_dates, now)
        \* adjusted *= (0.7 + 0.3 * boost) = (70 + 3 * boost_tenths) / 100
        boosted == Frac(adjusted_score[1] * (70 + 3 * seasonal_boost),
                        adjusted_score[2] * 100)
    IN  FMin(Num(10000),
             IF travel_dates.kind # "none" THEN boosted ELSE adjusted_score)

_calculate_crowd_score(dest_crowd, user_tolerance) ==
    LET inverted_crowd == 10000 - dest_crowd
        \* tolerance_factor = tolerance / 5
        adjusted_score ==
            IF user_tolerance <= 5
            THEN \* inverted * (1 + (1 - tolerance / 5))
                 Frac(inverted_crowd * (10 - user_tolerance), 5)
            ELSE \* crowd * (tolerance / 5 - 1)
                 Frac(dest_crowd * (user_tolerance - 5), 5)
    IN  FMin(Num(10000), Frac(adjusted_score[1], adjusted_score[2] * 2))

RECURSIVE SumOver(_, _, _)
\* sum of F[x] for x in S, F a function of x built by the caller
SumOver(F, G, S) ==
    IF S = {} THEN 0
    ELSE LET x == CHOOSE y \in S : TRUE
         IN  F[x] * G[x] + SumOver(F, G, S \ {x})

\* variant: a missing profile scores 0 instead of the neutral 5
DNAMatchZeroWithoutProfile(destination, travel_dna) ==
    IF ~travel_dna.given THEN Num(0)
    ELSE LET dna_dimensions == travel_dna.dimensions
             destination_affinity == destination.dna_affinity
             common == DOMAIN dna_dimensions \cap DOMAIN destination_affinity
             similarity == [d \in common |->
                 10000 - Abs(dna_dimensions[d] - destination_affinity[d])]
             weight == [d \in common |-> dna_dimensions[d]]
             one == [d \in common |-> 1]
             weighted_sum == SumOver(similarity, weight, common)
             total_weight == SumOver(weight, one, common)
         IN  IF DOMAIN destination_affinity = {} THEN Num(5000)
             ELSE IF total_weight > 0 THEN Frac(weighted_sum, total_weight)
             ELSE Num(5000)

\* travel_dna: [given |-> FALSE] for None or {}, else the profile dict
_calculate_dna_match(destination, travel_dna) ==
    IF ~travel_dna.given THEN Num(5000)
    ELSE LET dna_dimensions == travel_dna.dimensions
             destination_affinity == destination.dna_affinity
             common == DOMAIN dna_dimensions \cap DOMAIN destination_affinity
             similarity == [d \in common |->
                 10000 - Abs(dna_dimensions[d] - destination_affinity[d])]
             \* weight = user_score / 10; the factor 1/10 cancels in the quotient
             weight == [d \in common |-> dna_dimensions[d]]
             one == [d \in common |-> 1]
             weighted_sum == SumOver(similarity, weight, common)
             total_weight == SumOver(weight, one, common)
         IN  IF DOMAIN destination_affinity = {} THEN Num(5000)
             ELSE IF total_weight > 0 THEN Frac(weighted_sum, total_weight)
             ELSE Num(5000)

category_mapping(category) ==
    CASE category = "Adventure" -> {"Adventure", "Mountains"}
      [] category = "Cultural" -> {"History", "Cities", "Culture"}
      [] category = "Luxury" -> {"Shopping", "Wellness"}
      [] category = "Nature" -> {"Beaches", "Mountains", "Nature"}
      [] category = "Urban" -> {"Cities", "Food", "Shopping"}
      [] category = "Beach" -> {"Beaches", "Wellness"}
      [] category = "Wellness" -> {"Wellness", "Nature"}
      [] OTHER -> {}

_calculate_category_score(destination_category, user_interests) ==
    IF user_interests = <<>> THEN Num(5000)
    ELSE LET category_keywords == category_mapping(destination_category)
             matches == Cardinality({i \in 1..Len(user_interests) :
                                        user_interests[i] \in category_keywords})
         IN  Frac(matches * 10000, Len(user_interests))

_calculate_seasonal_score(best_season, travel_dates, now) ==
    IF travel_dates.kind = "none" THEN Num(5000)
    ELSE LET travel_season == month_to_season(TravelMonth(travel_dates, now))
             season_parts == SeasonParts(best_season)
             travel_idx == SeasonIndex(travel_season)
             best_seasons_idx == {SeasonIndex(p[1]) :
                 p \in {q \in season_parts :
                          Len(q) = 1 /\ \E i \in 1..Len(season_order) : season_order[i] = q[1]}}
             min_distance == CHOOSE m \in {Abs(travel_idx - i) : i \in best_seasons_idx} :
                                 \A i \in best_seasons_idx : m <= Abs(travel_idx - i)
         IN  IF <<travel_season>> \in season_parts THEN Num(9000)
             ELSE IF <<"All">> \in season_parts \/ <<"Year-round">> \in season_parts
             THEN Num(7000)
             ELSE IF best_seasons_idx # {}
             THEN IF min_distance = 1 THEN Num(6000) ELSE Num(3000)
             ELSE Num(5000)

_calculate_individual_scores(destination, prefs, now) ==
    [budget_score |-> _calculate_budget_score(destination.average_cost,
                          prefs.budget_min, prefs.budget_max),
     weather_score |-> _calculate_weather_score(destination.weather_score,
                          prefs.weather_priority, prefs.travel_dates, now),
     crowd_score |-> _calculate_crowd_score(destination.crowd_score,
                          prefs.crowd_tolerance),
     dna_match |-> _calculate_dna_match(destination, prefs.travel_dna),
     category_score |-> _calculate_category_score(destination.category,
                          prefs.interests),
     seasonal_score |-> _calculate_seasonal_score(destination.best_season,
                          prefs.travel_dates, now)]

---------------------------------------------------------------------------
(* ConfidenceEngine: aggregation and calibration.                          *)

\* a / b rounded to the nearest integer (a >= 0, b > 0)
RDiv(a, b) == (a + b \div 2) \div b

\* np.log on a positive number x given in thousandths (x >= 1); the result
\* is in ten-thousandths.  x = m * 2^k with 1 <= m < 2, then
\* ln m = 2 * atanh((m - 1) / (m + 1)) by its series.
RECURSIVE LnReduce(_, _)
\* mantissa in 1/100000 and binary exponent of a number given in 1/100000
LnReduce(m, k) ==
    IF m >= 200000 THEN LnReduce(RDiv(m, 2), k + 1)
    ELSE IF m < 100000 THEN LnReduce(m * 2, k - 1)
    ELSE <<m, k>>

np_log(x) ==
    LET big == x >= 20000
        mk == LnReduce(IF big THEN x ELSE x * 100, 0)
        m == mk[1]
        k == mk[2]
        \* y = (m - 1) / (m + 1) in 1/100000
        y == RDiv((m - 100000) * 10000, RDiv(m + 100000, 10))
        y2 == RDiv(y * (y \div 10), 10000)
        t3 == RDiv(y2 * (y \div 10), 10000)
        t5 == RDiv(t3 * (y2 \div 10), 10000)
        t7 == RDiv(t5 * (y2 \div 10), 10000)
        t9 == RDiv(t7 * (y2 \div 10), 10000)
        series == y + RDiv(t3, 3) + RDiv(t5, 5) + RDiv(t7, 7) + RDiv(t9, 9)
    IN  \* ln 2 = 0.693147, ln 100 = 4.605170
        RDiv(2 * series + 1000000, 10) - 100000 + RDiv(k * 693147 + 10000000, 100) - 100000
            + (IF big THEN 46052 ELSE 0)

RECURSIVE Pow2(_)
Pow2(k) == IF k <= 0 THEN 1 ELSE 2 * Pow2(k - 1)

\* np.exp on y given in ten-thousandths; the result is in thousandths.
\* y = k * ln 2 + r with 0 <= r < ln 2, exp r by its Taylor series.
np_exp(y) ==
    LET k == (y * 10) \div 69315
        r == y * 10 - k * 69315
        \* r and the terms in 1/100000
        t1 == r
        t2 == RDiv(t1 * (r \div 10), 20000)
        t3 == RDiv(t2 * (r \div 10), 30000)
        t4 == RDiv(t3 * (r \div 10), 40000)
        t5 == RDiv(t4 * (r \div 10), 50000)
        t6 == RDiv(t5 * (r \div 10), 60000)
        t7 == RDiv(t6 * (r \div 10), 70000)
        e == 100000 + t1 + t2 + t3 + t4 + t5 + t6 + t7
    IN  IF k >= 0 THEN RDiv((e \div 10) * Pow2(k), 10) ELSE RDiv(e, 100 * Pow2(-k))

\* weights in hundredths
weights == [budget_score |-> 25, dna_match |-> 20, weather_score |-> 15,
            crowd_score |-> 15, category_score |-> 15, seasonal_score |-> 10]

\* keys missing from the scores dict are set to the neutral 5.0
WithDefaults(s) ==
    [key \in ScoreKeys |-> IF key \in DOMAIN s THEN s[key] ELSE Num(5000)]

\* score = max(0.1, scores[key]), in thousandths
FlooredScore(s, key) == Milli(FMax(Num(100), WithDefaults(s)[key]))

\* variant: the two penalties are swapped
CurveSwappedPenalties(score) ==
    IF score >= 85000 THEN score + ((100000 - score) * 3) \div 10
    ELSE IF score >= 70000 THEN score
    ELSE IF score >= 50000 THEN (score * 7) \div 10
    ELSE (score * 9) \div 10

\* variant: top scores are not boosted
CurveWithoutBoost(score) ==
    IF score >= 70000 THEN score
    ELSE IF score >= 50000 THEN (score * 9) \div 10
    ELSE (score * 7) \div 10

_apply_confidence_curve(score) ==
    IF score >= 85000 THEN score + ((100000 - score) * 3) \div 10
    ELSE IF score >= 70000 THEN score
    ELSE IF score >= 50000 THEN (score * 9) \div 10
    ELSE (score * 7) \div 10

\* round(x, 1) on thousandths
Round1(x) == ((x + 50) \div 100) * 100

\* the aggregate before calibration: geometric_mean * 10
AggregateScore(s) ==
    LET term == [key \in ScoreKeys |-> np_log(FlooredScore(s, key))]
        one == [key \in ScoreKeys |-> 1]
        log_sum == SumOver(weights, term, ScoreKeys)
        weight_sum == SumOver(weights, one, ScoreKeys)
        geometric_mean == np_exp(log_sum \div weight_sum)
    IN  geometric_mean * 10

\* variant: the result is not capped at 100
ConfidenceScoreUncapped(s) ==
    Round1(Max2(0, _apply_confidence_curve(AggregateScore(s))))

_calculate_confidence_score(s) ==
    Round1(Min2(100000, Max2(0, _apply_confidence_curve(AggregateScore(s)))))

---------------------------------------------------------------------------
(* ConfidenceEngine: the recommendation pass.                              *)

\* recommendation = dest.copy(); recommendation.update({...})
Recommendation(dest, sc) ==
    [confidence_score |-> _calculate_confidence_score(sc),
     budget_score |-> sc.budget_score,
     weather_score |-> sc.weather_score,
     crowd_score |-> sc.crowd_score,
     dna_match |-> sc.dna_match,
     breakdown |-> sc] @@ dest

\* variant: recommendations below 50 are left out of the result
RecommendationsAboveHalf(dests, prefs, now) ==
    SelectSeq([i \in 1..Len(dests) |->
                  Recommendation(dests[i], _calculate_individual_scores(dests[i], prefs, now))],
              LAMBDA r : r.confidence_score >= 50000)

calculate_recommendations(dests, prefs, now) ==
    [i \in 1..Len(dests) |->
        Recommendation(dests[i], _calculate_individual_scores(dests[i], prefs, now))]

\* the exception a pass over the catalog propagates
RaisedBy(dests, prefs, now) ==
    IF \E i \in 1..Len(dests) :
          IsRaised(_calculate_budget_score(dests[i].average_cost,
                                           prefs.budget_min, prefs.budget_max))
    THEN "ZeroDivisionError"
    ELSE "none"

\* variant: the scores are written to the catalog record itself
CatalogWrittenByPass(dests, prefs, now) ==
    [i \in 1..Len(dests) |->
        LET sc == _calculate_individual_scores(dests[i], prefs, now)
        IN  [dests[i] EXCEPT !.weather_score = Milli(sc.weather_score),
                             !.crowd_score = Milli(sc.crowd_score)]]

\* the catalog after a pass: the scores are written to dest.copy()
CatalogAfterPass(dests, prefs, now) == dests

_identify_strengths(sc) ==
    LET score_threshold == Num(8000)
        Label(key, text) == IF FLeq(score_threshold, sc[key]) THEN <<text>> ELSE <<>>
    IN  Label("budget_score", "Excellent budget fit")
        \o Label("dna_match", "Perfect personality match")
        \o Label("weather_score", "Ideal weather conditions")
        \o Label("category_score", "Matches your interests")

_identify_concerns(sc, destination, prefs) ==
    LET concern_threshold == Num(4000)
        tolerance == prefs.crowd_tolerance
    IN  (IF FLeq(sc.budget_score, concern_threshold)
         THEN <<"May exceed your budget range">> ELSE <<>>)
        \o (IF FLeq(sc.crowd_score, concern_threshold)
            THEN IF tolerance < 5
                 THEN <<"Potentially crowded during your travel dates">>
                 ELSE <<"May be quieter than preferred">>
            ELSE <<>>)
        \o (IF FLeq(sc.seasonal_score, concern_threshold)
            THEN <<"Not ideal season for this destination">> ELSE <<>>)

\* an f-string is the pair of its fixed text and the interpolated value;
\* savings_needed is in the unit of the costs
_generate_optimizations(sc, destination, prefs) ==
    LET cost == destination.average_cost
        budget_max == prefs.budget_max
        savings_needed == cost - budget_max
        tolerance == prefs.crowd_tolerance
    IN  (IF FLt(sc.budget_score, Num(7000)) /\ cost > budget_max
         THEN <<<<"Consider traveling in shoulder season to save ~$", savings_needed>>>>
         ELSE <<>>)
        \o (IF FLt(sc.seasonal_score, Num(7000))
            THEN <<<<"For optimal experience, visit during ", destination.best_season>>>>
            ELSE <<>>)
        \o (IF FLt(sc.crowd_score, Num(6000)) /\ tolerance < 5
            THEN <<<<"Consider early morning visits to popular attractions", 0>>>>
            ELSE <<>>)

\* variant: the breakdown ignores the travel dates
BreakdownWithoutDates(destination, prefs, now) ==
    LET sc == _calculate_individual_scores(destination,
                  [prefs EXCEPT !.travel_dates = [kind |-> "none", month |-> 0,
                                                  end_month |-> 0]], now)
    IN  [confidence_score |-> _calculate_confidence_score(sc),
         component_scores |-> sc,
         primary_strengths |-> _identify_strengths(sc),
         potential_concerns |-> _identify_concerns(sc, destination, prefs),
         optimization_suggestions |-> _generate_optimizations(sc, destination, prefs)]

get_recommendation_breakdown(destination, prefs, now) ==
    LET sc == _calculate_individual_scores(destination, prefs, now)
    IN  [confidence_score |-> _calculate_confidence_score(sc),
         component_scores |-> sc,
         primary_strengths |-> _identify_strengths(sc),
         potential_concerns |-> _identify_concerns(sc, destination, prefs),
         optimization_suggestions |-> _generate_optimizations(sc, destination, prefs)]

\* the catalog after a breakdown: the record is only read
CatalogAfterBreakdown(dests, i) == dests

---------------------------------------------------------------------------
(* Inputs explored for the engine.  Each family varies the inputs of one   *)
(* component score over a grid and keeps the other inputs at the values    *)
(* of the first catalog record and of the trip planner's defaults.         *)

Months == 1..12

SeasonString1 == <<"Spring", ",", " ", "Summer", ",", " ", "Fall">>

NoDNA == [given |-> FALSE, dimensions |-> [d \in {} |-> 0]]

DefaultDestination ==
    [id |-> "queenstown_nz", name |-> "Queenstown", category |-> "Adventure",
     average_cost |-> 35,
     best_season |-> SeasonString1, weather_score |-> 7500, crowd_score |-> 6800,
     dna_affinity |-> ("adventure" :> 9200 @@ "nature" :> 8500 @@
                       "comfort" :> 6000 @@ "luxury" :> 5500)]

DefaultPrefs ==
    [budget_min |-> 10, budget_max |-> 30,
     travel_dates |-> [kind |-> "range", month |-> 7, end_month |-> 7],
     interests |-> <<"Beaches", "Food">>,
     weather_priority |-> 8, crowd_tolerance |-> 5, travel_dna |-> NoDNA]

TravelDates ==
    {[kind |-> "none", month |-> 0, end_month |-> 0],
     [kind |-> "other", month |-> 0, end_month |-> 0]}
        \cup {[kind |-> "range", month |-> m, end_month |-> m] : m \in Months}

CostValues == {5, 10, 15, 20, 30, 35, 60, 100}
BudgetValues == {0, 5, 10, 30, 100}
BaselineValues == {0, 1000, 2500, 4000, 5000, 6800, 7500, 9200, 10000}
Scale1To10 == 1..10

AffinityValues ==
    {[d \in {} |-> 0],
     DefaultDestination.dna_affinity,
     [d \in Dimensions |-> IF d \in {"urban", "culture"} THEN 10000 ELSE 0],
     ("social" :> 3000 @@ "urban" :> 9500)}

DNAValues ==
    {NoDNA,
     [given |-> TRUE, dimensions |-> [d \in {} |-> 0]],
     [given |-> TRUE, dimensions |-> [d \in Dimensions |-> 0]],
     [given |-> TRUE, dimensions |->
         [d \in Dimensions |-> IF d = "adventure" THEN 10000
                               ELSE IF d = "comfort" THEN 3500 ELSE 0]],
     [given |-> TRUE, dimensions |->
         [d \in Dimensions |-> IF d = "social" THEN 10000
                               ELSE IF d = "comfort" THEN 250 ELSE 7142]],
     [given |-> TRUE, dimensions |-> ("culture" :> 10000 @@ "urban" :> 0)]}

CategoryValues == {"Adventure", "Cultural", "Luxury", "Nature", "Urban", "Beach",
                   "Wellness", "Volcano"}
InterestValues == {"Beaches", "Mountains", "Food", "Adventure", "Wellness"}
InterestLists == UNION {[1..n -> InterestValues] : n \in 0..MaxInterests}

SeasonStrings ==
    {SeasonString1,
     <<"Summer", ",", " ", "Winter">>,
     <<"Summer", ",", "Fall">>,
     <<"Summer", ",", " ", "Fall">>,
     <<"Winter">>,
     <<"Year-round">>,
     <<"Monsoon">>,
     <<>>}

Catalogs(D) == UNION {[1..n -> D] : n \in 1..MaxCatalog}
SingleCatalogs(D) == {<<d>> : d \in D}

BudgetCases ==
    {<<c, p>> : c \in Catalogs({[DefaultDestination EXCEPT !.average_cost = v] :
                                   v \in CostValues}),
                p \in {[DefaultPrefs EXCEPT !.budget_min = b[1], !.budget_max = b[2]] :
                          b \in {x \in BudgetValues \X BudgetValues : x[1] <= x[2]}}}

WeatherCases ==
    {<<c, p>> : c \in SingleCatalogs({[DefaultDestination EXCEPT !.weather_score = v] :
                                         v \in BaselineValues}),
                p \in {[DefaultPrefs EXCEPT !.weather_priority = x[1], !.travel_dates = x[2]] :
                          x \in Scale1To10 \X TravelDates}}

CrowdCases ==
    {<<c, p>> : c \in SingleCatalogs({[DefaultDestination EXCEPT !.crowd_score = v] :
                                         v \in BaselineValues}),
                p \in {[DefaultPrefs EXCEPT !.crowd_tolerance = t] : t \in Scale1To10}}

DNACases ==
    {<<c, p>> : c \in SingleCatalogs({[DefaultDestination EXCEPT !.dna_affinity = v] :
                                         v \in AffinityValues}),
                p \in {[DefaultPrefs EXCEPT !.travel_dna = t] : t \in DNAValues}}

CategoryCases ==
    {<<c, p>> : c \in SingleCatalogs({[DefaultDestination EXCEPT !.category = v] :
                                         v \in CategoryValues}),
                p \in {[DefaultPrefs EXCEPT !.interests = t] : t \in InterestLists}}

SeasonalCases ==
    {<<c, p>> : c \in SingleCatalogs({[DefaultDestination EXCEPT !.best_season = v] :
                                         v \in SeasonStrings}),
                p \in {[DefaultPrefs EXCEPT !.travel_dates = t] : t \in TravelDates}}

EngineCases == BudgetCases \cup WeatherCases \cup CrowdCases \cup DNACases
                   \cup CategoryCases \cup SeasonalCases

NoScores == [key \in {} |-> Num(0)]

ConfIdle == scores = NoScores /\ confidence_score = -1
CurveIdle == curve_in = -1 /\ curve_out = -1 /\ curve_prev = <<-1, -1>>
NoResponses == [q \in {} |-> 0]
NoProfile == [raised |-> "idle", personality_type |-> "",
              dimensions |-> [d \in Dimensions |-> 0], match_score |-> 0]
ProfilerIdle == /\ profiler = [questions |-> <<>>, personality_centroids |-> <<>>]
                /\ user_responses = NoResponses
                /\ analyzed = NoResponses
                /\ profile = NoProfile
                /\ first_profile = NoProfile
\* no breakdown asked yet; index is the catalog position asked about and
\* clock the month datetime.now() reported to the call (0 if not read)
NoBreakdown ==
    [raised |-> "idle", index |-> 0, clock |-> 0,
     confidence_score |-> -1, component_scores |-> NoScores,
     primary_strengths |-> <<>>, potential_concerns |-> <<>>,
     optimization_suggestions |-> <<>>]
EngineIdle == /\ destinations = <<>>
              /\ user_prefs = DefaultPrefs
              /\ recommendations = <<>>
              /\ engine_raised = "idle"
              /\ pass_clock = 0
              /\ breakdown = NoBreakdown
\* a piece of explanation text: the canned template chosen (or "parsed" /
\* "default"), the values interpolated into it, and parsed text as tokens
TextOf(template, personality, name, text) ==
    [template |-> template, personality |-> personality, name |-> name, text |-> text]
NoText == TextOf("", "", "", <<>>)
NoRequest == [destination |-> DefaultDestination,
              user_profile |-> [key \in {} |-> ""],
              reply |-> [kind |-> "text", text |-> <<<<>>>>]]
NoExplanation == [raised |-> "idle", justification |-> NoText, regret_preview |-> NoText]
ExplainerIdle == /\ explainer = [mock_mode |-> TRUE]
                 /\ explain_request = NoRequest
                 /\ explanation = NoExplanation
\* None for self.user_profile and self.recommendations; a new session
None == [given |-> FALSE]
NewSession == [quiz_completed |-> FALSE, current_step |-> 0,
               show_recommendations |-> FALSE]
AppIdle == /\ session_state = NewSession
           /\ app = [user_profile |-> None, recommendations |-> None]
           /\ app_error = "none"

InitEngine ==
    /\ \E case \in EngineCases :
          /\ destinations = case[1]
          /\ user_prefs = case[2]
    /\ recommendations = <<>>
    /\ engine_raised = "idle"
    /\ pass_clock = 0
    /\ breakdown = NoBreakdown
    /\ calls = 0
    /\ ConfIdle /\ CurveIdle /\ ProfilerIdle /\ ExplainerIdle /\ AppIdle

\* datetime.now() is read only for travel dates that are not a (start, end) pair
ClockReads(prefs) == IF prefs.travel_dates.kind = "other" THEN Months ELSE {0}

\* self.confidence_engine.calculate_recommendations(self.destinations, user_prefs)
CalculateRecommendations ==
    /\ \E now \in ClockReads(user_prefs) :
          LET raised == RaisedBy(destinations, user_prefs, now)
          IN  /\ engine_raised' = raised
              /\ recommendations' =
                    IF raised = "none"
                    THEN calculate_recommendations(destinations, user_prefs, now)
                    ELSE <<>>
              /\ destinations' =
                    IF raised = "none"
                    THEN CatalogAfterPass(destinations, user_prefs, now)
                    ELSE destinations
              /\ pass_clock' = now
    /\ UNCHANGED <<user_prefs, breakdown, calls>>
    /\ UNCHANGED <<confVars, curveVars, profilerVars, explainVars, appVars>>

\* engine.get_recommendation_breakdown(destinations[i], user_prefs)
GetRecommendationBreakdown ==
    /\ \E i \in 1..Len(destinations), now \in ClockReads(user_prefs) :
          LET raised == RaisedBy(<<destinations[i]>>, user_prefs, now)
          IN  /\ breakdown' =
                    IF raised = "none"
                    THEN [raised |-> raised, index |-> i, clock |-> now]
                         @@ get_recommendation_breakdown(destinations[i], user_prefs, now)
                    ELSE [NoBreakdown EXCEPT !.raised = raised, !.index = i]
              /\ destinations' = CatalogAfterBreakdown(destinations, i)
    /\ UNCHANGED <<user_prefs, recommendations, engine_raised, pass_clock, calls>>
    /\ UNCHANGED <<confVars, curveVars, profilerVars, explainVars, appVars>>

NextEngine == CalculateRecommendations

SpecEngine == InitEngine /\ [][NextEngine]_vars

---------------------------------------------------------------------------
(* Passes and breakdowns on one engine, over catalogs of distinct records. *)

CatalogRecords ==
    {DefaultDestination,
     [DefaultDestination EXCEPT !.id = "maldives", !.name = "Maldives",
         !.category = "Beach",
         !.average_cost = 10, !.crowd_score = 2500, !.weather_score = 9200],
     [DefaultDestination EXCEPT !.id = "stromboli", !.name = "Stromboli",
         !.category = "Volcano",
         !.average_cost = 60, !.best_season = <<"Winter">>]}

CallPrefs ==
    {[DefaultPrefs EXCEPT !.budget_min = b[1], !.budget_max = b[2],
                          !.crowd_tolerance = t, !.travel_dates = d] :
        b \in {<<10, 30>>, <<30, 100>>, <<0, 0>>},
        t \in {3, 8},
        d \in {x \in TravelDates : x.kind = "none" \/ x.month \in {1, 7}}}

\* travel dates that are not a pair make the engine read the clock
ClockPrefs ==
    {[DefaultPrefs EXCEPT !.crowd_tolerance = t, !.travel_dates = d] :
        t \in {3, 8}, d \in {x \in TravelDates : x.kind = "other"}}

EngineCallCases ==
    {<<c, p>> : c \in Catalogs(CatalogRecords), p \in CallPrefs}
    \cup {<<c, p>> : c \in SingleCatalogs(CatalogRecords), p \in ClockPrefs}

InitEngineCalls ==
    /\ \E case \in EngineCallCases :
          /\ destinations = case[1]
          /\ user_prefs = case[2]
    /\ recommendations = <<>>
    /\ engine_raised = "idle"
    /\ pass_clock = 0
    /\ breakdown = NoBreakdown
    /\ calls = 0
    /\ ConfIdle /\ CurveIdle /\ ProfilerIdle /\ ExplainerIdle /\ AppIdle

NextEngineCalls == CalculateRecommendations \/ GetRecommendationBreakdown

SpecEngineCalls == InitEngineCalls /\ [][NextEngineCalls]_vars

---------------------------------------------------------------------------
(* Passes on preferences as a caller of the engine may hand them over,     *)
(* malformed ones included.                                                *)

\* utils.validate_user_inputs: the list of error messages; a "range" is a
\* pair of dates compared by their months
validate_user_inputs(user_data) ==
    (IF user_data.budget_min > user_data.budget_max
     THEN <<"Minimum budget cannot exceed maximum budget">> ELSE <<>>)
    \o (IF user_data.budget_min < 0 \/ user_data.budget_max < 0
        THEN <<"Budget values must be positive">> ELSE <<>>)
    \o (IF /\ user_data.travel_dates.kind = "range"
           /\ user_data.travel_dates.end_month < user_data.travel_dates.month
        THEN <<"End date cannot be before start date">> ELSE <<>>)

AnyBudgetValues == BudgetValues \cup {-10, -5}

AnyTravelDates ==
    {[kind |-> "none", month |-> 0, end_month |-> 0],
     [kind |-> "range", month |-> 7, end_month |-> 7],
     [kind |-> "range", month |-> 7, end_month |-> 3]}

AnyPrefs ==
    {[DefaultPrefs EXCEPT !.budget_min = b[1], !.budget_max = b[2], !.travel_dates = d] :
        b \in AnyBudgetValues \X AnyBudgetValues, d \in AnyTravelDates}

InitUnvalidated ==
    /\ destinations \in SingleCatalogs({[DefaultDestination EXCEPT !.average_cost = v] :
                                            v \in CostValues})
    /\ user_prefs \in AnyPrefs
    /\ recommendations = <<>>
    /\ engine_raised = "idle"
    /\ pass_clock = 0
    /\ breakdown = NoBreakdown
    /\ calls = 0
    /\ ConfIdle /\ CurveIdle /\ ProfilerIdle /\ ExplainerIdle /\ AppIdle

NextUnvalidated == CalculateRecommendations

SpecUnvalidated == InitUnvalidated /\ [][NextUnvalidated]_vars

---------------------------------------------------------------------------
(* GeminiExplainer.  A text is a sequence of lines and a line a sequence   *)
(* of tokens: words, " " and the two section markers.  The collaborator's  *)
(* reply is an input: what building the prompt, model.generate_content and *)
(* reading response.text do ("prompt_error", "call_error", "parse_error"   *)
(* for an exception raised at that stage), or the text returned.           *)

EmptyText == <<<<>>>>

\* str.lower() on the category strings explored
Lower(category) ==
    CASE category \in {"Adventure", "adventure"} -> "adventure"
      [] category \in {"Cultural"} -> "cultural"
      [] category \in {"Luxury"} -> "luxury"
      [] category \in {"Nature"} -> "nature"
      [] category \in {"Urban"} -> "urban"
      [] category \in {"Beach", "BEACH", "beach"} -> "beach"
      [] category \in {"Wellness"} -> "wellness"
      [] category \in {"Volcano"} -> "volcano"
      [] OTHER -> category

\* keys of the justifications and regret_previews tables
TemplateKeys == {"adventure", "cultural", "luxury", "nature", "urban", "beach", "wellness"}

\* user_profile.get("personality_type", default) if user_profile else default
PersonalityOf(user_profile, default) ==
    IF DOMAIN user_profile # {} /\ "personality_type" \in DOMAIN user_profile
    THEN user_profile["personality_type"]
    ELSE default

\* variant: the category is looked up as it is written
MockExplanationCaseSensitive(destination, user_profile) ==
    LET personality == PersonalityOf(user_profile, "Traveler")
        category == destination.category
        default_category == "adventure"
        selected_category == IF category \in TemplateKeys THEN category
                             ELSE default_category
    IN  [raised |-> "none",
         justification |-> TextOf(selected_category, personality, destination.name, <<>>),
         regret_preview |-> TextOf(selected_category, "", "", <<>>)]

_generate_mock_explanation(destination, user_profile) ==
    LET personality == PersonalityOf(user_profile, "Traveler")
        category == Lower(destination.category)
        default_category == "adventure"
        selected_category == IF category \in TemplateKeys THEN category
                             ELSE default_category
    IN  [raised |-> "none",
         justification |-> TextOf(selected_category, personality, destination.name, <<>>),
         regret_preview |-> TextOf(selected_category, "", "", <<>>)]

IsBlank(line) == \A i \in 1..Len(line) : line[i] = " "

\* response_text.strip().split('\n')
RECURSIVE StripLeft(_)
StripLeft(text) ==
    IF text = <<>> THEN EmptyText
    ELSE IF IsBlank(Head(text)) THEN StripLeft(Tail(text))
    ELSE text

RECURSIVE StripLeading(_)
StripLeading(line) ==
    IF line # <<>> /\ Head(line) = " " THEN StripLeading(Tail(line)) ELSE line

RECURSIVE StripTrailing(_)
StripTrailing(line) ==
    IF line # <<>> /\ line[Len(line)] = " "
    THEN StripTrailing(SubSeq(line, 1, Len(line) - 1)) ELSE line

RECURSIVE DropBlankTail(_)
DropBlankTail(text) ==
    IF text = <<>> THEN EmptyText
    ELSE IF IsBlank(text[Len(text)]) THEN DropBlankTail(SubSeq(text, 1, Len(text) - 1))
    ELSE text

StripText(text) ==
    LET kept == DropBlankTail(StripLeft(text))
        n == Len(kept)
    IN  [i \in 1..n |->
            LET left == IF i = 1 THEN StripLeading(kept[i]) ELSE kept[i]
            IN  IF i = n THEN StripTrailing(left) ELSE left]

\* line.replace(marker, "").strip()
WithoutMarker(line, marker) ==
    Strip(SelectSeq(line, LAMBDA t : t # marker))

\* the loop of _parse_gemini_response over lines[i..], with the sections so far
RECURSIVE ParseFrom(_, _, _, _, _)
ParseFrom(lines, i, current_section, justification, regret_preview) ==
    IF i > Len(lines)
    THEN <<justification, regret_preview>>
    ELSE LET line == lines[i]
         IN  IF line # <<>> /\ Head(line) = "JUSTIFICATION:"
             THEN ParseFrom(lines, i + 1, "justification",
                            WithoutMarker(line, "JUSTIFICATION:"), regret_preview)
             ELSE IF line # <<>> /\ Head(line) = "REGRET_PREVIEW:"
             THEN ParseFrom(lines, i + 1, "regret_preview",
                            justification, WithoutMarker(line, "REGRET_PREVIEW:"))
             ELSE IF current_section = "justification"
             THEN ParseFrom(lines, i + 1, current_section,
                            justification \o <<" ">> \o Strip(line), regret_preview)
             ELSE IF current_section = "regret_preview"
             THEN ParseFrom(lines, i + 1, current_section,
                            justification, regret_preview \o <<" ">> \o Strip(line))
             ELSE ParseFrom(lines, i + 1, current_section, justification, regret_preview)

_parse_gemini_response(response_text) ==
    LET parsed == ParseFrom(StripText(response_text), 1, "", <<>>, <<>>)
    IN  [raised |-> "none",
         justification |-> IF parsed[1] # <<>> THEN TextOf("parsed", "", "", parsed[1])
                           ELSE TextOf("default", "", "", <<>>),
         regret_preview |-> IF parsed[2] # <<>> THEN TextOf("parsed", "", "", parsed[2])
                            ELSE TextOf("default", "", "", <<>>)]

generate_trip_explanation(self, destination, user_profile, reply) ==
    IF self.mock_mode
    THEN _generate_mock_explanation(destination, user_profile)
    ELSE IF reply.kind \in {"prompt_error", "call_error", "parse_error"}
    THEN _generate_mock_explanation(destination, user_profile)
    ELSE IF reply.text # EmptyText
    THEN _parse_gemini_response(reply.text)
    ELSE _generate_mock_explanation(destination, user_profile)

ExplainedCategories == CategoryValues \cup {"BEACH", "beach", "adventure", ""}

UserProfiles ==
    {[key \in {} |-> ""],
     ("personality_type" :> "Adventure Seeker"),
     ("personality_type" :> "Relaxation Chaser"),
     ("match_score" :> "61.2")}

ReplyTexts ==
    {EmptyText,
     <<<<" ">>>>,
     <<<<"Sorry">>>>,
     <<<<"JUSTIFICATION:", " ", "Fits">>, <<"REGRET_PREVIEW:", " ", "Crowds">>>>,
     <<<<" ">>, <<"JUSTIFICATION:", " ", "Fits">>, <<" ", "you", " ">>,
       <<"REGRET_PREVIEW:">>, <<"Crowds">>, <<>>>>,
     <<<<"Intro">>, <<" ", "JUSTIFICATION:", "Fits">>, <<"REGRET_PREVIEW:", "Crowds">>>>,
     <<<<"JUSTIFICATION:">>, <<"REGRET_PREVIEW:", " ">>>>}

Replies ==
    {[kind |-> k, text |-> EmptyText] : k \in {"prompt_error", "call_error", "parse_error"}}
    \cup {[kind |-> "text", text |-> t] : t \in ReplyTexts}

InitExplainer ==
    /\ explainer \in {[mock_mode |-> m] : m \in BOOLEAN}
    /\ explain_request \in
          {[destination |-> [DefaultDestination EXCEPT !.category = c],
            user_profile |-> u, reply |-> r] :
              c \in ExplainedCategories, u \in UserProfiles, r \in Replies}
    /\ explanation = NoExplanation
    /\ calls = 0
    /\ EngineIdle /\ ConfIdle /\ CurveIdle /\ ProfilerIdle /\ AppIdle

\* self.gemini_explainer.generate_trip_explanation(destination=rec, ...)
GenerateTripExplanation ==
    /\ explanation' = generate_trip_explanation(explainer,
                           explain_request.destination, explain_request.user_profile,
                           explain_request.reply)
    /\ UNCHANGED <<explainer, explain_request, calls>>
    /\ UNCHANGED <<engineVars, confVars, curveVars, profilerVars, appVars>>

NextExplainer == GenerateTripExplanation

SpecExplainer == InitExplainer /\ [][NextExplainer]_vars

---------------------------------------------------------------------------
(* An explanation call in flight: the request is sent by                   *)
(* model.generate_content(prompt), which is given no timeout and returns   *)
(* when the collaborator answers or fails.                                 *)

\* the collaborator may also never answer
PendingReplies == Replies \cup {[kind |-> "never", text |-> EmptyText]}

\* the call is waiting inside generate_content
PendingExplanation == [NoExplanation EXCEPT !.raised = "pending"]

InitExplainerCalls ==
    /\ explainer \in {[mock_mode |-> m] : m \in BOOLEAN}
    /\ explain_request \in
          {[destination |-> [DefaultDestination EXCEPT !.category = c],
            user_profile |-> u, reply |-> r] :
              c \in {"Beach", "Volcano"}, u \in UserProfiles, r \in PendingReplies}
    /\ explanation = NoExplanation
    /\ calls = 0
    /\ EngineIdle /\ ConfIdle /\ CurveIdle /\ ProfilerIdle /\ AppIdle

\* the call up to generate_content: mock mode and a failure while building
\* the prompt return at once
RequestExplanation ==
    /\ explanation.raised = "idle"
    /\ explanation' =
          IF explainer.mock_mode \/ explain_request.reply.kind = "prompt_error"
          THEN generate_trip_explanation(explainer, explain_request.destination,
                   explain_request.user_profile, explain_request.reply)
          ELSE PendingExplanation
    /\ UNCHANGED <<explainer, explain_request, calls>>
    /\ UNCHANGED <<engineVars, confVars, curveVars, profilerVars, appVars>>

\* generate_content returns or raises, and the call runs to its return
CollaboratorAnswers ==
    /\ explanation.raised = "pending"
    /\ explain_request.reply.kind # "never"
    /\ explanation' = generate_trip_explanation(explainer, explain_request.destination,
                           explain_request.user_profile, explain_request.reply)
    /\ UNCHANGED <<explainer, explain_request, calls>>
    /\ UNCHANGED <<engineVars, confVars, curveVars, profilerVars, appVars>>

NextExplainerCalls == RequestExplanation \/ CollaboratorAnswers

SpecExplainerCalls ==
    InitExplainerCalls /\ [][NextExplainerCalls]_vars /\ WF_vars(NextExplainerCalls)

---------------------------------------------------------------------------
(* TravelDNAProfiler.                                                      *)

_initialize_questions ==
  <<
    [id |-> "q1_adventure", type |-> "multiple_choice",
     options |-> <<"Find the most thrilling activity available",
                     "Research historical and cultural sites",
                     "Book the most luxurious accommodation",
                     "Look for natural landscapes and wildlife",
                     "Explore city attractions and nightlife",
                     "Find the most relaxing beach or spa",
                     "Plan activities where I can meet new people">>,
     dimensions |-> <<"adventure", "culture", "luxury", "nature", "urban", "comfort", "social">>],
    [id |-> "q2_budget", type |-> "multiple_choice",
     options |-> <<"Experiences and adventures first",
                     "Museums, tours, and cultural activities",
                     "Premium accommodations and dining",
                     "Outdoor gear and park fees",
                     "Urban attractions and transportation",
                     "Comfort and relaxation services",
                     "Social activities and group experiences">>,
     dimensions |-> <<"adventure", "culture", "luxury", "nature", "urban", "comfort", "social">>],
    [id |-> "q3_pace", type |-> "slider",
     options |-> <<>>,
     dimensions |-> <<"adventure", "comfort">>],
    [id |-> "q4_accommodation", type |-> "multiple_choice",
     options |-> <<"A base camp for daily adventures",
                     "Centrally located for cultural access",
                     "A 5-star resort with all amenities",
                     "An eco-lodge in nature",
                     "A trendy hotel in the city center",
                     "A quiet retreat with spa facilities",
                     "A social hostel or guesthouse">>,
     dimensions |-> <<"adventure", "culture", "luxury", "nature", "urban", "comfort", "social">>],
    [id |-> "q5_planning", type |-> "slider",
     options |-> <<>>,
     dimensions |-> <<"adventure", "comfort">>],
    [id |-> "q6_activities", type |-> "selectbox",
     options |-> <<"Hiking, rafting, or extreme sports",
                     "Museum visits and historical tours",
                     "Fine dining and luxury shopping",
                     "Wildlife safaris and nature walks",
                     "City tours and architectural sights",
                     "Spa treatments and beach lounging",
                     "Local festivals and social events">>,
     dimensions |-> <<"adventure", "culture", "luxury", "nature", "urban", "comfort", "social">>],
    [id |-> "q7_social", type |-> "slider",
     options |-> <<>>,
     dimensions |-> <<"social", "comfort">>],
    [id |-> "q8_learning", type |-> "multiple_choice",
     options |-> <<"Adrenaline-filled memories",
                     "Cultural understanding and knowledge",
                     "Luxury experiences and photos",
                     "Connection with nature",
                     "Urban experiences and trends",
                     "Complete relaxation and rejuvenation",
                     "New friendships and connections">>,
     dimensions |-> <<"adventure", "culture", "luxury", "nature", "urban", "comfort", "social">>]
  >>

\* centroids in thousandths, in declaration order
_calculate_personality_centroids ==
  <<
    [personality |-> "Adventure Seeker",
     centroid |-> ("adventure" :> 9500 @@ "comfort" :> 2000 @@ "culture" :> 4000 @@ "luxury" :> 1500 @@ "nature" :> 7000 @@ "urban" :> 3000 @@ "social" :> 5000)],
    [personality |-> "Culture Connoisseur",
     centroid |-> ("adventure" :> 3000 @@ "comfort" :> 5000 @@ "culture" :> 9500 @@ "luxury" :> 4000 @@ "nature" :> 4000 @@ "urban" :> 7000 @@ "social" :> 6000)],
    [personality |-> "Luxury Escapist",
     centroid |-> ("adventure" :> 1500 @@ "comfort" :> 9500 @@ "culture" :> 5000 @@ "luxury" :> 9500 @@ "nature" :> 3000 @@ "urban" :> 6000 @@ "social" :> 4000)],
    [personality |-> "Nature Immerser",
     centroid |-> ("adventure" :> 6000 @@ "comfort" :> 4000 @@ "culture" :> 3000 @@ "luxury" :> 2000 @@ "nature" :> 9500 @@ "urban" :> 1500 @@ "social" :> 3000)],
    [personality |-> "Urban Explorer",
     centroid |-> ("adventure" :> 4000 @@ "comfort" :> 6000 @@ "culture" :> 7000 @@ "luxury" :> 5000 @@ "nature" :> 2000 @@ "urban" :> 9500 @@ "social" :> 7000)],
    [personality |-> "Relaxation Chaser",
     centroid |-> ("adventure" :> 1500 @@ "comfort" :> 9500 @@ "culture" :> 3000 @@ "luxury" :> 7000 @@ "nature" :> 6000 @@ "urban" :> 2000 @@ "social" :> 2000)],
    [personality |-> "Social Connector",
     centroid |-> ("adventure" :> 5000 @@ "comfort" :> 5000 @@ "culture" :> 6000 @@ "luxury" :> 3000 @@ "nature" :> 4000 @@ "urban" :> 7000 @@ "social" :> 9500)]
  >>

\* TravelDNAProfiler.__init__
TravelDNAProfiler ==
    [questions |-> _initialize_questions,
     personality_centroids |-> _calculate_personality_centroids]

\* next((q for q in self.questions if q["id"] == q_id), None)
KnownIds(self) == {self.questions[i].id : i \in 1..Len(self.questions)}
QuestionOf(self, q_id) ==
    self.questions[CHOOSE i \in 1..Len(self.questions) :
                      /\ self.questions[i].id = q_id
                      /\ \A j \in 1..(i - 1) : self.questions[j].id # q_id]

IsChoice(question) == question.type \in {"multiple_choice", "selectbox"}

\* question["options"].index(response), counted from 1; 0 when index() raises ValueError
OptionIndex(question, response) ==
    IF \E i \in 1..Len(question.options) : question.options[i] = response
    THEN CHOOSE i \in 1..Len(question.options) :
             /\ question.options[i] = response
             /\ \A j \in 1..(i - 1) : question.options[j] # response
    ELSE 0

\* variant: the option index is shifted by one against the dimension list
PointsShifted(question, response, d) ==
    IF IsChoice(question)
    THEN LET option_idx == OptionIndex(question, response) + 1
         IN  IF option_idx >= 2 /\ option_idx <= Len(question.dimensions)
                /\ question.dimensions[option_idx] = d
             THEN 9 ELSE 0
    ELSE IF question.type = "slider" /\ Len(question.dimensions) = 2
    THEN LET score == response
         IN  (IF question.dimensions[1] = d THEN score ELSE 0)
             + (IF question.dimensions[2] = d THEN 10 - score ELSE 0)
    ELSE 0

\* what one answer adds to dimension_scores[d]
Points(question, response, d) ==
    IF IsChoice(question)
    THEN LET option_idx == OptionIndex(question, response)
         IN  IF option_idx >= 1 /\ option_idx <= Len(question.dimensions)
                /\ question.dimensions[option_idx] = d
             THEN 9 ELSE 0
    ELSE IF question.type = "slider" /\ Len(question.dimensions) = 2
    THEN LET score == response
         IN  (IF question.dimensions[1] = d THEN score ELSE 0)
             + (IF question.dimensions[2] = d THEN 10 - score ELSE 0)
    ELSE 0

\* what one answer adds to response_count[d]
Touches(question, response, d) ==
    IF IsChoice(question)
    THEN LET option_idx == OptionIndex(question, response)
         IN  IF option_idx >= 1 /\ option_idx <= Len(question.dimensions)
                /\ question.dimensions[option_idx] = d
             THEN 1 ELSE 0
    ELSE IF question.type = "slider" /\ Len(question.dimensions) = 2
    THEN (IF question.dimensions[1] = d THEN 1 ELSE 0)
         + (IF question.dimensions[2] = d THEN 1 ELSE 0)
    ELSE 0

\* a dict over the seven dimensions, as the literal of analyze_responses
DimensionDict(F(_)) ==
    [adventure |-> F("adventure"), comfort |-> F("comfort"), culture |-> F("culture"),
     luxury |-> F("luxury"), nature |-> F("nature"), urban |-> F("urban"),
     social |-> F("social")]

\* dimension_scores and response_count after the loop over the responses
AccumulatedScores(self, r) ==
    LET answered == DOMAIN r \cap KnownIds(self)
        one == [q \in answered |-> 1]
    IN  DimensionDict(LAMBDA d :
            SumOver([q \in answered |-> Points(QuestionOf(self, q), r[q], d)],
                    one, answered))

ResponseCount(self, r) ==
    LET answered == DOMAIN r \cap KnownIds(self)
        one == [q \in answered |-> 1]
    IN  DimensionDict(LAMBDA d :
            SumOver([q \in answered |-> Touches(QuestionOf(self, q), r[q], d)],
                    one, answered))

\* dimension_scores[dim] / response_count[dim], in thousandths
AverageScores(dimension_scores, response_count) ==
    DimensionDict(LAMBDA d :
        IF response_count[d] > 0
        THEN (dimension_scores[d] * 1000) \div response_count[d]
        ELSE dimension_scores[d] * 1000)

MaxOf(f) == CHOOSE m \in {f[d] : d \in DOMAIN f} : \A d \in DOMAIN f : f[d] <= m

\* variant: normalization by the sum of the scores instead of their maximum
NormalizedBySum(avg, max_score) ==
    DimensionDict(LAMBDA d :
        (avg[d] * 10000) \div SumOver(avg, [x \in Dimensions |-> 1], Dimensions))

\* (dimension_scores[dim] / max_score) * 10, in thousandths
NormalizedScores(avg, max_score) ==
    DimensionDict(LAMBDA d : (avg[d] * 10000) \div max_score)

\* squared Euclidean distance, in millionths
Distance2(user_dimensions, centroid) ==
    LET diff == [d \in Dimensions |-> user_dimensions[d] - centroid[d]]
    IN  SumOver(diff, diff, Dimensions)

RECURSIVE ClosestFrom(_, _, _, _)
\* the loop of _find_closest_personality from centroid i on
ClosestFrom(self, user_dimensions, i, best) ==
    IF i > Len(self.personality_centroids) THEN best
    ELSE LET distance == Distance2(user_dimensions,
                                   self.personality_centroids[i].centroid)
         IN  IF best = 0
                \/ distance < Distance2(user_dimensions,
                                        self.personality_centroids[best].centroid)
             THEN ClosestFrom(self, user_dimensions, i + 1, i)
             ELSE ClosestFrom(self, user_dimensions, i + 1, best)

\* variant: among the centroids at minimal distance the last declared wins
ClosestLastDeclared(self, user_dimensions) ==
    CHOOSE k \in 1..Len(self.personality_centroids) :
        \A j \in 1..Len(self.personality_centroids) :
            LET dk == Distance2(user_dimensions, self.personality_centroids[k].centroid)
                dj == Distance2(user_dimensions, self.personality_centroids[j].centroid)
            IN  dk <= dj /\ (j > k => dk < dj)

\* index of the closest personality in the centroid table
_find_closest_personality(self, user_dimensions) ==
    ClosestFrom(self, user_dimensions, 1, 0)

RECURSIVE SqrtBits(_, _, _)
\* integer square root, one binary digit at a time
SqrtBits(n, s, bit) ==
    IF bit = 0 THEN s
    ELSE IF (s + bit) * (s + bit) <= n THEN SqrtBits(n, s + bit, bit \div 2)
    ELSE SqrtBits(n, s, bit \div 2)

\* np.sqrt, truncated (n < 2^30)
np_sqrt(n) == SqrtBits(n, 0, 16384)

\* max(0, 100 - distance / sqrt(7 * 10^2) * 100) rounded to one decimal,
\* in thousandths: distance / sqrt(700) * 100 = 10 * sqrt(distance^2 / 7)
_calculate_match_score(self, user_dimensions, personality) ==
    LET distance2 == Distance2(user_dimensions,
                               self.personality_centroids[personality].centroid)
        match_percentage == Max2(0, 100000 - 5 * np_sqrt((distance2 \div 7) * 4))
    IN  Round1(match_percentage)

\* options.index(response) raises ValueError on an answer that is no option
RaisesValueError(self, r) ==
    \E q \in DOMAIN r \cap KnownIds(self) :
        /\ IsChoice(QuestionOf(self, q))
        /\ OptionIndex(QuestionOf(self, q), r[q]) = 0

\* classification and match score of the normalized vector
ProfileOf(self, dimension_scores) ==
    CHOOSE result \in
        {[raised |-> "none",
          personality_type |-> self.personality_centroids[personality_match].personality,
          dimensions |-> dimension_scores,
          match_score |-> _calculate_match_score(self, dimension_scores,
                                                 personality_match)] :
            personality_match \in {_find_closest_personality(self, dimension_scores)}} :
        TRUE

\* the steps after the loop, on the averaged scores
NormalizeAndClassify(self, avg, max_score) ==
    IF max_score = 0
    THEN [NoProfile EXCEPT !.raised = "ZeroDivisionError"]
    ELSE CHOOSE result \in
             {ProfileOf(self, dimension_scores) :
                 dimension_scores \in {NormalizedScores(avg, max_score)}} : TRUE

analyze_responses(self, r) ==
    IF RaisesValueError(self, r)
    THEN [NoProfile EXCEPT !.raised = "ValueError"]
    ELSE CHOOSE result \in
             {NormalizeAndClassify(self, avg, MaxOf(avg)) :
                 avg \in {AverageScores(dimension_scores, response_count) :
                             dimension_scores \in {AccumulatedScores(self, r)},
                             response_count \in {ResponseCount(self, r)}}} : TRUE

\* variant: the call consumes the first question of the table
ProfilerDropsQuestion(self, r) ==
    [self EXCEPT !.questions = IF @ = <<>> THEN @ ELSE Tail(@)]

\* the profiler after a call: analyze_responses assigns nothing on self
ProfilerAfterAnalysis(self, r) == self

---------------------------------------------------------------------------
(* The quiz answers explored for the profiler.                             *)

ChoiceIds == {q.id : q \in {x \in {_initialize_questions[i] :
                                      i \in 1..Len(_initialize_questions)} : IsChoice(x)}}
SliderIds == KnownIds(TravelDNAProfiler) \ ChoiceIds

\* the response mapping in which each choice question q of DOMAIN c is
\* answered by its option number c[q] and each slider question q of
\* DOMAIN sl by the value sl[q]
ResponsesOf(c, sl) ==
    [q \in DOMAIN c \cup DOMAIN sl |->
        IF q \in DOMAIN c
        THEN QuestionOf(TravelDNAProfiler, q).options[c[q]]
        ELSE sl[q]]

PartialMaps(Ids, Values) == UNION {[A -> Values] : A \in SUBSET Ids}

\* options probed on every choice question: adventure, comfort, social
ChoiceProbes == {1, 6, 7}
SliderProbes == {1, 10}

GridResponses ==
    {ResponsesOf(c, sl) : c \in PartialMaps(ChoiceIds, ChoiceProbes),
                          sl \in PartialMaps(SliderIds, SliderProbes)}

\* every choice question answered by its adventure option, any slider answers
AdventureResponses ==
    {ResponsesOf([q \in ChoiceIds |-> 1], sl) :
        sl \in PartialMaps(SliderIds, Scale1To10)}

\* answers under a question id the table does not have
UnknownIdResponses ==
    {("q9_unknown" :> "Anything") @@ r :
        r \in {NoResponses,
               ResponsesOf(("q1_adventure" :> 4), NoResponses),
               ResponsesOf(NoResponses, ("q7_social" :> 3))}}

\* an answer to a choice or select question that is none of its options,
\* alone or next to valid answers
InvalidAnswerResponses ==
    {bad @@ r :
        bad \in {("q1_adventure" :> "Stay home"),
                 ("q6_activities" :> "Knitting"),
                 ("q1_adventure" :> "Stay home") @@ ("q6_activities" :> "Knitting")},
        r \in {NoResponses,
               ResponsesOf(("q2_budget" :> 2), ("q3_pace" :> 4)),
               ResponsesOf([q \in ChoiceIds |-> 5], [q \in SliderIds |-> 7])}}

\* slider answers outside 1..10, as analyze_responses accepts them from a caller
UnclampedValues == {-3, 12}
UnclampedSliderResponses ==
    {ResponsesOf(NoResponses, sl) : sl \in PartialMaps(SliderIds, UnclampedValues)}

QuizResponses == GridResponses \cup AdventureResponses \cup UnknownIdResponses
                     \cup InvalidAnswerResponses \cup UnclampedSliderResponses

InitProfiler ==
    /\ profiler = TravelDNAProfiler
    /\ user_responses \in QuizResponses
    /\ analyzed = NoResponses
    /\ profile = NoProfile
    /\ first_profile = NoProfile
    /\ calls = 0
    /\ EngineIdle /\ ConfIdle /\ CurveIdle /\ ExplainerIdle /\ AppIdle

\* self.user_profile = self.dna_profiler.analyze_responses(st.session_state.user_responses)
AnalyzeResponses ==
    /\ calls < MaxCalls
    /\ profile' = analyze_responses(profiler, user_responses)
    /\ analyzed' = user_responses
    /\ profiler' = ProfilerAfterAnalysis(profiler, user_responses)
    /\ first_profile' = IF first_profile.raised = "idle" THEN profile' ELSE first_profile
    /\ calls' = calls + 1
    /\ UNCHANGED user_responses
    /\ UNCHANGED <<engineVars, confVars, curveVars, explainVars, appVars>>

\* the quiz page analyses the submitted answers (app.py, last quiz step)
SubmitQuiz == calls < MaxAnalyses /\ AnalyzeResponses

NextProfiler == SubmitQuiz

SpecProfiler == InitProfiler /\ [][NextProfiler]_vars

---------------------------------------------------------------------------
(* Repeated calls on one profiler, interleaved with calls on other         *)
(* response mappings.                                                      *)

ProbeResponses ==
    UnknownIdResponses
    \cup {ResponsesOf([q \in ChoiceIds |-> c], sl) :
              c \in {1, 6},
              sl \in {NoResponses, [q \in SliderIds |-> 1], [q \in SliderIds |-> 10]}}

OtherResponses ==
    {ResponsesOf([q \in ChoiceIds |-> 3], [q \in SliderIds |-> 5]),
     ResponsesOf(("q1_adventure" :> 7), NoResponses),
     ("q1_adventure" :> "Stay home")}

InitProfilerCalls ==
    /\ profiler = TravelDNAProfiler
    /\ user_responses \in ProbeResponses
    /\ analyzed = NoResponses
    /\ profile = NoProfile
    /\ first_profile = NoProfile
    /\ calls = 0
    /\ EngineIdle /\ ConfIdle /\ CurveIdle /\ ExplainerIdle /\ AppIdle

\* a call of analyze_responses on another response mapping
AnalyzeOther ==
    /\ calls < MaxCalls
    /\ \E r \in OtherResponses :
          /\ profile' = analyze_responses(profiler, r)
          /\ analyzed' = r
          /\ profiler' = ProfilerAfterAnalysis(profiler, r)
    /\ calls' = calls + 1
    /\ UNCHANGED <<user_responses, first_profile>>
    /\ UNCHANGED <<engineVars, confVars, curveVars, explainVars, appVars>>

NextProfilerCalls == AnalyzeResponses \/ AnalyzeOther

SpecProfilerCalls == InitProfilerCalls /\ [][NextProfilerCalls]_vars

---------------------------------------------------------------------------
(* Classification of normalized vectors: the steps of analyze_responses    *)
(* after the normalization.                                                *)

\* vectors whose dimensions are 0 or 10, at least one of them 10
CornerVectors ==
    {v \in [Dimensions -> {0, 10000}] : \E d \in Dimensions : v[d] = 10000}

\* a vector at the same distance from the Luxury Escapist and the
\* Relaxation Chaser centroids, nearer to them than to any other centroid
TieVector ==
    ("adventure" :> 1500 @@ "comfort" :> 10000 @@ "culture" :> 4000 @@ "luxury" :> 8250
     @@ "nature" :> 4500 @@ "urban" :> 4000 @@ "social" :> 3000)

NormalizedVectors == CornerVectors \cup {TieVector}

InitClassifier ==
    /\ profiler = TravelDNAProfiler
    /\ user_responses = NoResponses
    /\ analyzed = NoResponses
    /\ profile = NoProfile
    /\ first_profile = NoProfile
    /\ calls = 0
    /\ EngineIdle /\ ConfIdle /\ CurveIdle /\ ExplainerIdle /\ AppIdle

\* personality_match = self._find_closest_personality(dimension_scores)
\* match_score = self._calculate_match_score(dimension_scores, personality_match)
ClassifyVector ==
    /\ calls < MaxCalls
    /\ \E dimension_scores \in NormalizedVectors :
          profile' = ProfileOf(profiler, dimension_scores)
    /\ calls' = calls + 1
    /\ UNCHANGED <<profiler, user_responses, analyzed, first_profile>>
    /\ UNCHANGED <<engineVars, confVars, curveVars, explainVars, appVars>>

NextClassifier == ClassifyVector

SpecClassifier == InitClassifier /\ [][NextClassifier]_vars

---------------------------------------------------------------------------
(* The Streamlit application (app.py).  Every user action makes Streamlit  *)
(* run the script once: main() builds a new VoyageAIApp and run() renders  *)
(* the quiz tab, then the planner tab.  st.session_state outlives the run, *)
(* the attributes of the app object do not.  st.rerun() ends the run and   *)
(* starts a run in which no widget reports an action.                      *)

\* VoyageAIApp.__init__: self.user_profile = None, self.recommendations = None
VoyageAIApp == [user_profile |-> None, recommendations |-> None]

\* a value that is not None
Some(v) == [given |-> TRUE, value |-> v]

\* variant: a submitted answer is not stored
ResponsesWithoutSubmitted(responses, q_id, selected) == responses

\* st.session_state.user_responses[q["id"]] = selected
ResponsesAfterSubmit(responses, q_id, selected) ==
    [x \in DOMAIN responses \cup {q_id} |-> IF x = q_id THEN selected ELSE responses[x]]

\* the answers the widget of a question is made to return here: the first
\* and the sixth option of a radio / selectbox, 3 and 8 on a slider
OfferedAnswers(q) ==
    IF IsChoice(q) THEN {q.options[1], q.options[6]} ELSE {3, 8}

\* "travel_dna": self.user_profile if self.user_profile else None
TravelDNAOf(user_profile) ==
    IF user_profile.given
    THEN [given |-> TRUE, dimensions |-> user_profile.value.dimensions]
    ELSE NoDNA

\* user_profile as generate_trip_explanation reads it
ProfileDict(user_profile) ==
    IF user_profile.given
    THEN ("personality_type" :> user_profile.value.personality_type)
    ELSE [key \in {} |-> ""]

\* render_recommendations up to the sort: sorted(self.recommendations, ...)
\* raises TypeError on None; run() calls it when show_recommendations is set
render_recommendations(self, session) ==
    IF session.show_recommendations /\ ~self.recommendations.given
    THEN "TypeError" ELSE "none"

\* the part of the catalog of generate_destinations() the app is run on
AppCatalog ==
    <<DefaultDestination,
      [DefaultDestination EXCEPT !.id = "maldives", !.name = "Maldives",
          !.category = "Beach",
          !.average_cost = 10, !.crowd_score = 2500, !.weather_score = 9200]>>

\* what the planner widgets are made to hold: budget 1000..3000 and a date
\* range starting in January or in July
TripPreferences ==
    {[DefaultPrefs EXCEPT !.travel_dates = [kind |-> "range", month |-> m, end_month |-> m]] :
        m \in {1, 7}}

InitApp ==
    /\ session_state = NewSession
    /\ app = VoyageAIApp
    /\ app_error = "none"
    /\ profiler = TravelDNAProfiler
    /\ user_responses = NoResponses
    /\ analyzed = NoResponses
    /\ profile = NoProfile
    /\ first_profile = NoProfile
    /\ destinations = AppCatalog
    /\ user_prefs = DefaultPrefs
    /\ recommendations = <<>>
    /\ engine_raised = "idle"
    /\ pass_clock = 0
    /\ breakdown = NoBreakdown
    /\ explainer \in {[mock_mode |-> m] : m \in BOOLEAN}
    /\ explain_request = NoRequest
    /\ explanation = NoExplanation
    /\ calls = 0
    /\ ConfIdle /\ CurveIdle

\* the run st.rerun() starts: a new app, no widget action
Rerun(session) ==
    /\ app' = VoyageAIApp
    /\ app_error' = render_recommendations(VoyageAIApp, session)

\* "Next" / "Get Results" on the quiz form (_render_quiz_questions)
SubmitNext ==
    /\ ~session_state.quiz_completed
    /\ session_state.current_step < Len(profiler.questions)
    /\ LET q == profiler.questions[session_state.current_step + 1]
       IN  \E selected \in OfferedAnswers(q) :
             LET responses == ResponsesAfterSubmit(user_responses, q.id, selected)
                 step == session_state.current_step + 1
                 completed == step = Len(profiler.questions)
                 session == [session_state EXCEPT !.current_step = step,
                                                  !.quiz_completed = completed]
             IN  /\ user_responses' = responses
                 /\ session_state' = session
                 /\ IF completed
                    THEN \E result \in {analyze_responses(profiler, responses)} :
                           /\ analyzed' = responses
                           /\ profile' = result
                           /\ profiler' = ProfilerAfterAnalysis(profiler, responses)
                           /\ IF result.raised = "none"
                              THEN \* self.user_profile = result; st.rerun()
                                   Rerun(session)
                              ELSE /\ app' = VoyageAIApp
                                   /\ app_error' = result.raised
                    ELSE /\ UNCHANGED <<analyzed, profile, profiler>>
                         /\ Rerun(session)
    /\ UNCHANGED <<first_profile, calls>>
    /\ UNCHANGED <<engineVars, confVars, curveVars, explainVars>>

\* "Previous" on the quiz form
SubmitPrevious ==
    /\ ~session_state.quiz_completed
    /\ session_state.current_step < Len(profiler.questions)
    /\ session_state.current_step > 0
    /\ session_state' = [session_state EXCEPT !.current_step = @ - 1]
    /\ Rerun(session_state')
    /\ UNCHANGED <<profilerVars, calls>>
    /\ UNCHANGED <<engineVars, confVars, curveVars, explainVars>>

\* "Find My Confident Matches" (render_trip_planner), followed in the same
\* run by render_recommendations
ClickFind ==
    /\ \E p \in TripPreferences :
          \E now \in ClockReads(p) :
             LET self == VoyageAIApp
                 prefs == [p EXCEPT !.travel_dna = TravelDNAOf(self.user_profile)]
                 raised == RaisedBy(destinations, prefs, now)
             IN  /\ user_prefs' = prefs
                 /\ engine_raised' = raised
                 /\ pass_clock' = now
                 /\ IF raised = "none"
                    THEN /\ recommendations' =
                               calculate_recommendations(destinations, prefs, now)
                         /\ app' = [self EXCEPT !.recommendations = Some(recommendations')]
                         /\ session_state' =
                               [session_state EXCEPT !.show_recommendations = TRUE]
                         /\ app_error' = render_recommendations(app', session_state')
                    ELSE /\ recommendations' = <<>>
                         /\ app' = self
                         /\ app_error' = raised
                         /\ UNCHANGED session_state
    /\ destinations' = AppCatalog
    /\ UNCHANGED <<breakdown, calls>>
    /\ UNCHANGED <<profilerVars, confVars, curveVars, explainVars>>

\* "Why This Trip?" on a recommendation the page of the latest run shows
ClickExplain ==
    /\ session_state.show_recommendations
    /\ app.recommendations.given
    /\ app_error = "none"
    /\ \E i \in 1..Min2(5, Len(app.recommendations.value)) :
          LET self == VoyageAIApp
              raised == render_recommendations(self, session_state)
          IN  /\ app' = self
              /\ app_error' = raised
              /\ IF raised = "none"
                 THEN \E reply \in Replies :
                        /\ explain_request' =
                              [destination |-> self.recommendations.value[i],
                               user_profile |-> ProfileDict(self.user_profile),
                               reply |-> reply]
                        /\ explanation' =
                              generate_trip_explanation(explainer,
                                  explain_request'.destination,
                                  explain_request'.user_profile, reply)
                 ELSE UNCHANGED <<explain_request, explanation>>
    /\ UNCHANGED <<explainer, session_state, calls>>
    /\ UNCHANGED <<engineVars, profilerVars, confVars, curveVars>>

\* any other widget action (a slider moved, a tab opened): a run of the script
OtherWidgetAction ==
    /\ Rerun(session_state)
    /\ UNCHANGED <<session_state, calls>>
    /\ UNCHANGED <<engineVars, profilerVars, confVars, curveVars, explainVars>>

NextApp == SubmitNext \/ SubmitPrevious \/ ClickFind \/ ClickExplain \/ OtherWidgetAction

SpecApp == InitApp /\ [][NextApp]_vars

---------------------------------------------------------------------------
(* _calculate_confidence_score on arbitrary score dicts.                   *)

\* component scores probed, in thousandths: 0, 3.0, 8.5 and 12.0
ScoreProbes == {0, 3000, 8500, 12000}

ScoreDicts ==
    {[key \in {k \in ScoreKeys : f[k] >= 0} |-> Num(f[key])] :
        f \in [ScoreKeys -> {-1} \cup ScoreProbes]}

InitConfidence ==
    /\ scores \in ScoreDicts
    /\ confidence_score = -1
    /\ calls = 0
    /\ EngineIdle /\ CurveIdle /\ ProfilerIdle /\ ExplainerIdle /\ AppIdle

\* confidence = self._calculate_confidence_score(scores); the call fills the
\* missing keys of its argument in place
CalculateConfidenceScore ==
    /\ confidence_score' = _calculate_confidence_score(scores)
    /\ scores' = WithDefaults(scores)
    /\ UNCHANGED calls
    /\ UNCHANGED <<engineVars, curveVars, profilerVars, explainVars, appVars>>

NextConfidence == CalculateConfidenceScore

SpecConfidence == InitConfidence /\ [][NextConfidence]_vars

---------------------------------------------------------------------------
(* _apply_confidence_curve on a grid of aggregated scores.                 *)

CurveBoundaries == {50000, 70000, 85000}

\* every multiple of 5 in 0..100 and the neighbourhood of each boundary
CurvePoints ==
    {5000 * i : i \in 0..20}
    \cup UNION {{b - 100, b - 1, b, b + 1, b + 100} : b \in CurveBoundaries}

InitCurve ==
    /\ CurveIdle
    /\ calls = 0
    /\ EngineIdle /\ ConfIdle /\ ProfilerIdle /\ ExplainerIdle /\ AppIdle

\* confidence_score = self._apply_confidence_curve(confidence_score)
ApplyConfidenceCurve ==
    /\ \E score \in CurvePoints :
          /\ curve_in' = score
          /\ curve_out' = _apply_confidence_curve(score)
    /\ curve_prev' = <<curve_in, curve_out>>
    /\ UNCHANGED calls
    /\ UNCHANGED <<engineVars, confVars, profilerVars, explainVars, appVars>>

NextCurve == ApplyConfidenceCurve

SpecCurve == InitCurve /\ [][NextCurve]_vars

---------------------------------------------------------------------------
(* Properties of the component scores.                                     *)

\* 0 < budget_min <= budget_max, weather_priority and crowd_tolerance in 1..10
ValidPrefs(p) ==
    /\ 0 < p.budget_min /\ p.budget_min <= p.budget_max
    /\ p.weather_priority \in 1..10
    /\ p.crowd_tolerance \in 1..10

InScoreRange(f) == ~IsRaised(f) /\ FLeq(Num(0), f) /\ FLeq(f, Num(10000))

\* C1: for valid preferences the pass returns, and in every recommendation
\* weather_score, crowd_score, dna_match, category_score and seasonal_score
\* lie in [0,10]; budget_score lies in [0,10] when the cost is above budget_min.
C1_ComponentScoresInRange ==
    ValidPrefs(user_prefs) =>
        /\ engine_raised \in {"idle", "none"}
        /\ \A i \in 1..Len(recommendations) :
              LET b == recommendations[i].breakdown
              IN  /\ InScoreRange(b.weather_score)
                  /\ InScoreRange(b.crowd_score)
                  /\ InScoreRange(b.dna_match)
                  /\ InScoreRange(b.category_score)
                  /\ InScoreRange(b.seasonal_score)
                  /\ destinations[i].average_cost > user_prefs.budget_min
                        => InScoreRange(b.budget_score)

\* a pass over a destination above budget_min whose weather score reached the cap
C1_Witness ==
    /\ ValidPrefs(user_prefs)
    /\ \E i \in 1..Len(recommendations) :
          /\ destinations[i].average_cost > user_prefs.budget_min
          /\ recommendations[i].breakdown.weather_score = Num(10000)
          /\ destinations[i].weather_score = 10000
          /\ user_prefs.weather_priority = 10
          /\ user_prefs.travel_dates = [kind |-> "range", month |-> 2, end_month |-> 2]


\* C5: with budget_min < budget_max, of two destinations scored in one pass
\* with costs budget_min <= c1 <= c2, the cheaper one has the budget_score
\* that is at least as high (also across budget_max).
C5_BudgetScoreMonotonic ==
    user_prefs.budget_min < user_prefs.budget_max =>
        \A i, j \in 1..Len(recommendations) :
            (/\ user_prefs.budget_min <= destinations[i].average_cost
             /\ destinations[i].average_cost <= destinations[j].average_cost)
            => FLeq(recommendations[j].budget_score, recommendations[i].budget_score)

\* a pass scoring one destination at budget_max and one above it
C5_Witness ==
    /\ user_prefs.budget_min < user_prefs.budget_max
    /\ \E i, j \in 1..Len(recommendations) :
          /\ destinations[i].average_cost = user_prefs.budget_max
          /\ destinations[j].average_cost > user_prefs.budget_max
          /\ FLt(recommendations[j].budget_score, recommendations[i].budget_score)

\* the profile shares no dimension of positive user weight with the destination
NoPositiveCommonDimension(dest, travel_dna) ==
    \A d \in DOMAIN travel_dna.dimensions \cap DOMAIN dest.dna_affinity :
        travel_dna.dimensions[d] <= 0

\* C8: dna_match is exactly 5.0 when the preferences carry no profile, when
\* the destination has no affinity table, and when no shared dimension has
\* positive user weight.
C8_NeutralDNAMatch ==
    \A i \in 1..Len(recommendations) :
        (\/ ~user_prefs.travel_dna.given
         \/ DOMAIN destinations[i].dna_affinity = {}
         \/ NoPositiveCommonDimension(destinations[i], user_prefs.travel_dna))
        => recommendations[i].dna_match = Num(5000)

\* a destination with an affinity table scored without a profile
C8_Witness ==
    /\ ~user_prefs.travel_dna.given
    /\ \E i \in 1..Len(recommendations) :
          /\ DOMAIN destinations[i].dna_affinity = Dimensions
          /\ recommendations[i].dna_match = Num(5000)

\* C9: above budget_max (> 0) the budget score is 6 * budget_max / cost,
\* strictly between 0 and 6; for 1000 / 3000 / 3500 it is 5.142...
C9_OvershootBranch ==
    \A i \in 1..Len(recommendations) :
        LET cost == destinations[i].average_cost
            budget_score == recommendations[i].budget_score
        IN  (user_prefs.budget_max > 0 /\ cost > user_prefs.budget_max) =>
                /\ FEq(budget_score, Frac(6000 * user_prefs.budget_max, cost))
                /\ FLt(Num(0), budget_score)
                /\ FLt(budget_score, Num(6000))
                /\ (user_prefs.budget_min = 10 /\ user_prefs.budget_max = 30 /\ cost = 35)
                      => Milli(budget_score) = 5142

\* the pass with budget 1000..3000 over a destination costing 3500
C9_Witness ==
    /\ user_prefs.budget_min = 10 /\ user_prefs.budget_max = 30
    /\ \E i \in 1..Len(recommendations) :
          /\ destinations[i].average_cost = 35
          /\ Milli(recommendations[i].budget_score) = 5142

---------------------------------------------------------------------------
(* Properties of the aggregation and of the calibration curve.             *)

\* C2: the confidence score is in [0,100] and has one decimal; scores are
\* floored at 0.1, so six scores of at most 0.1 give 0.7 (the curve applied
\* to 10 * 0.1).
C2_ConfidenceInRange ==
    confidence_score # -1 =>
        /\ 0 <= confidence_score /\ confidence_score <= 100000
        /\ confidence_score % 100 = 0
        /\ (\A key \in ScoreKeys : FLeq(scores[key], Num(100))) => confidence_score = 700

\* six scores of 12: the aggregate is above 100 and the result is capped
C2_Witness ==
    /\ confidence_score = 100000
    /\ \A key \in ScoreKeys : scores[key] = Num(12000)
    /\ AggregateScore(scores) > 100000

\* C6: of two evaluations of the curve, the one on the larger score gives the
\* larger or equal result; the values around 50, 70 and 85 follow the rule.
C6_CurveMonotonic ==
    /\ (curve_prev[1] >= 0 /\ curve_prev[1] <= curve_in) => curve_prev[2] <= curve_out
    /\ curve_in = 49900 => curve_out = 34930
    /\ curve_in = 50000 => curve_out = 45000
    /\ curve_in = 50100 => curve_out = 45090
    /\ curve_in = 69900 => curve_out = 62910
    /\ curve_in = 70000 => curve_out = 70000
    /\ curve_in = 70100 => curve_out = 70100
    /\ curve_in = 84900 => curve_out = 84900
    /\ curve_in = 85000 => curve_out = 89500
    /\ curve_in = 85100 => curve_out = 89570

\* the curve evaluated at 69.9 and then at 70
C6_Witness ==
    /\ curve_prev = <<69900, 62910>>
    /\ curve_in = 70000 /\ curve_out = 70000

\* C7 as stated: at a boundary the curve has no jump, the result one
\* thousandth below the boundary is within one thousandth of the result at it.
C7_ContinuousAtBoundaries ==
    (curve_in \in CurveBoundaries /\ curve_prev[1] = curve_in - 1)
        => curve_out - curve_prev[2] <= 1

\* C7 amended: away from the boundaries neighbouring scores give neighbouring
\* results; at 50, 70 and 85 the result jumps upward, 35 -> 45, 63 -> 70
\* and 85 -> 89.5.
C7_JumpsAtBoundaries ==
    /\ (curve_prev[1] >= 0 /\ curve_in = curve_prev[1] + 1
           /\ curve_in \notin CurveBoundaries)
          => (curve_out - curve_prev[2]) \in {0, 1}
    /\ (curve_prev[1] = 49999 /\ curve_in = 50000)
          => (curve_prev[2] = 34999 /\ curve_out = 45000)
    /\ (curve_prev[1] = 69999 /\ curve_in = 70000)
          => (curve_prev[2] = 62999 /\ curve_out = 70000)
    /\ (curve_prev[1] = 84999 /\ curve_in = 85000)
          => (curve_prev[2] = 84999 /\ curve_out = 89500)

\* the curve evaluated one thousandth below 85 and then at 85
C7_Witness ==
    /\ curve_prev[1] = 84999
    /\ curve_in = 85000 /\ curve_out = 89500

---------------------------------------------------------------------------
(* Properties of the profiler.                                             *)

\* at least one known question is answered, every answer to a choice
\* question is one of its options and every slider answer is in 1..10
ValidlyAnswered(self, r) ==
    /\ DOMAIN r \cap KnownIds(self) # {}
    /\ \A q \in DOMAIN r \cap KnownIds(self) :
          IF IsChoice(QuestionOf(self, q))
          THEN OptionIndex(QuestionOf(self, q), r[q]) # 0
          ELSE r[q] \in 1..10

\* C3: for validly answered responses the analysis returns, the largest
\* dimension equals 10 and every dimension lies in [0,10].
C3_NormalizedMaxIsTen ==
    (profile.raised # "idle" /\ ValidlyAnswered(profiler, analyzed)) =>
        /\ profile.raised = "none"
        /\ MaxOf(profile.dimensions) = 10000
        /\ \A d \in Dimensions :
              0 <= profile.dimensions[d] /\ profile.dimensions[d] <= 10000

\* an analysis in which three dimensions were touched and one of them ends
\* strictly between 0 and 10
C3_Witness ==
    /\ profile.raised = "none"
    /\ ValidlyAnswered(profiler, analyzed)
    /\ "q7_social" \in DOMAIN analyzed
    /\ profile.dimensions["comfort"] = 10000
    /\ profile.dimensions["adventure"] > 0
    /\ profile.dimensions["adventure"] < 10000

AllAdventure(self, r) ==
    \A q \in KnownIds(self) :
        IsChoice(QuestionOf(self, q)) =>
            q \in DOMAIN r /\ r[q] = QuestionOf(self, q).options[1]

\* every slider question is answered in 1..10
SlidersAnswered(self, r) ==
    \A q \in KnownIds(self) :
        ~IsChoice(QuestionOf(self, q)) => q \in DOMAIN r /\ r[q] \in 1..10

IsAdventureSeeker(p) ==
    /\ p.raised = "none"
    /\ p.dimensions["adventure"] = 10000
    /\ \A d \in Dimensions : p.dimensions[d] <= p.dimensions["adventure"]
    /\ p.personality_type = "Adventure Seeker"

\* C10 as stated: adventure choices and any slider answers in 1..10 give
\* adventure = 10 as the largest dimension and the type Adventure Seeker.
C10_AdventureForAnySliders ==
    (/\ profile.raised # "idle"
     /\ AllAdventure(profiler, analyzed)
     /\ SlidersAnswered(profiler, analyzed))
    => IsAdventureSeeker(profile)

\* the adventure mean (45 + q3 + q5) / 7 is at least the social mean q7 and
\* the comfort mean (30 - q3 - q5 - q7) / 3
AdventureLeads(r) ==
    LET adventure_sum == 45 + r["q3_pace"] + r["q5_planning"]
    IN  /\ adventure_sum >= 7 * r["q7_social"]
        /\ 3 * adventure_sum >= 7 * (30 - r["q3_pace"] - r["q5_planning"] - r["q7_social"])

\* C10 amended: the same, for slider answers that leave the adventure mean
\* at least as high as the comfort and social means.
C10_AdventureWhenLeading ==
    (/\ profile.raised # "idle"
     /\ AllAdventure(profiler, analyzed)
     /\ SlidersAnswered(profiler, analyzed)
     /\ AdventureLeads(analyzed))
    => IsAdventureSeeker(profile)

\* the complete quiz with adventure choices and sliders 3, 9, 7 analysed
C10_Witness ==
    /\ AllAdventure(profiler, analyzed)
    /\ SlidersAnswered(profiler, analyzed)
    /\ analyzed["q3_pace"] = 3 /\ analyzed["q5_planning"] = 9 /\ analyzed["q7_social"] = 7
    /\ IsAdventureSeeker(profile)


---------------------------------------------------------------------------
(* Properties of passes and breakdowns.                                    *)

DescriptiveFields(dest) == DOMAIN dest \ {"weather_score", "crowd_score"}

\* C13: a pass that returns gives one recommendation per catalog record, in
\* catalog order, each carrying the id and descriptive fields of its record.
C13_OnePerRecord ==
    engine_raised = "none" =>
        /\ Len(recommendations) = Len(destinations)
        /\ \A i \in 1..Len(destinations) :
              \A f \in DescriptiveFields(destinations[i]) :
                  recommendations[i][f] = destinations[i][f]

\* a pass over two different records, one of them scored below 50
C13_Witness ==
    /\ engine_raised = "none"
    /\ Len(recommendations) = 2
    /\ recommendations[1].id = "stromboli" /\ recommendations[2].id = "maldives"
    /\ recommendations[1].confidence_score < 50000

\* C14 as stated: two passes over the same catalog with the same preferences
\* return equal results.
C14_PassIsPure ==
    [][(engine_raised = "none" /\ engine_raised' = "none")
          => recommendations' = recommendations]_vars

\* C15: no call changes the catalog.
C15_CatalogUnchanged ==
    [][destinations' = destinations]_vars

\* after a pass and a breakdown the record still has its own baselines, which
\* differ from the scores written to the recommendation
C15_Witness ==
    /\ engine_raised = "none" /\ breakdown.raised = "none"
    /\ destinations[1] \in CatalogRecords
    /\ recommendations[1].weather_score # Num(destinations[1].weather_score)
    /\ recommendations[1].crowd_score # Num(destinations[1].crowd_score)

\* C16 as stated: preferences that validate_user_inputs rejects are not scored.
C16_MalformedNotScored ==
    validate_user_inputs(user_prefs) # <<>> => engine_raised # "none"

KnownCategories == {"Adventure", "Cultural", "Luxury", "Nature", "Urban", "Beach",
                    "Wellness"}

\* C18 as stated: a record of unknown category gets the neutral category
\* score 5.0 whatever the interests are.
C18_UnknownCategoryNeutral ==
    engine_raised = "none" =>
        \A i \in 1..Len(destinations) :
            destinations[i].category \notin KnownCategories
            => recommendations[i].breakdown.category_score = Num(5000)

\* C19 as stated: some valid input with cost <= budget_min scores above 10
\* (a statement about the function; it is evaluated once a pass has returned).
C19_BonusCanExceedTen ==
    engine_raised = "none" =>
        \E cost \in CostValues, user_min \in BudgetValues, user_max \in BudgetValues :
            /\ 0 < user_min /\ user_min <= user_max /\ cost <= user_min
            /\ FLt(Num(10000), _calculate_budget_score(cost, user_min, user_max))

\* C19 amended: for valid budgets and 0 < cost <= budget_min the budget score
\* is above 8 and at most 10, and it is 10 exactly when cost = budget_min.
C19_BonusAtMostTen ==
    \A i \in 1..Len(recommendations) :
        LET cost == destinations[i].average_cost
            budget_score == recommendations[i].budget_score
        IN  (/\ 0 < user_prefs.budget_min
             /\ user_prefs.budget_min <= user_prefs.budget_max
             /\ 0 < cost /\ cost <= user_prefs.budget_min)
            => /\ FLt(Num(8000), budget_score)
               /\ FLeq(budget_score, Num(10000))
               /\ FEq(budget_score, Num(10000)) <=> cost = user_prefs.budget_min

\* a pass scoring one record at budget_min and one at half of it
C19_Witness ==
    /\ user_prefs.budget_min = 10 /\ user_prefs.budget_max = 30
    /\ \E i, j \in 1..Len(recommendations) :
          /\ destinations[i].average_cost = 10
          /\ recommendations[i].budget_score = Frac(100000, 10)
          /\ destinations[j].average_cost = 5
          /\ Milli(recommendations[j].budget_score) = 9000


---------------------------------------------------------------------------
(* Properties of the profiler on answers it cannot use.                    *)

\* the answered choice / select questions whose answer is none of the options
InvalidAnswers(self, r) ==
    {q \in DOMAIN r \cap KnownIds(self) :
        IsChoice(QuestionOf(self, q)) /\ OptionIndex(QuestionOf(self, q), r[q]) = 0}

\* the responses without the answers to the questions of Q
WithoutAnswers(r, Q) == [q \in DOMAIN r \ Q |-> r[q]]

\* C17 as stated: an answer that is no option is rejected alone: the analysis
\* reports InvalidResponseKind or returns the profile of the other answers.
C17_InvalidAnswerRejected ==
    (profile.raised # "idle" /\ InvalidAnswers(profiler, analyzed) # {}) =>
        \/ profile.raised = "InvalidResponseKind"
        \/ profile = analyze_responses(profiler,
                         WithoutAnswers(analyzed, InvalidAnswers(profiler, analyzed)))

\* C20 as stated: when no answer touches a dimension the analysis returns a
\* profile whose seven dimensions are 0.
C20_DegenerateGuard ==
    (profile.raised # "idle" /\ DOMAIN analyzed \cap KnownIds(profiler) = {}) =>
        /\ profile.raised = "none"
        /\ \A d \in Dimensions : profile.dimensions[d] = 0


---------------------------------------------------------------------------
(* Properties of the explainer.                                            *)

\* the collaborator is unavailable, fails, or returns empty text
Degrades ==
    \/ explainer.mock_mode
    \/ explain_request.reply.kind \in {"prompt_error", "call_error", "parse_error"}
    \/ explain_request.reply.text = EmptyText

\* C11: the call never raises; when the collaborator is unavailable, fails
\* or returns empty text, the result is the canned pair of the lower-cased
\* category (beach for Beach, adventure for an unknown category) with the
\* archetype name interpolated.
C11_DegradesToFallback ==
    explanation.raised # "idle" =>
        /\ explanation.raised = "none"
        /\ Degrades =>
              LET category == explain_request.destination.category
                  key == explanation.justification.template
              IN  /\ key \in TemplateKeys
                  /\ explanation.regret_preview.template = key
                  /\ category \in {"Beach", "BEACH", "beach"} => key = "beach"
                  /\ category \in KnownCategories => key = Lower(category)
                  /\ category \in {"Volcano", ""} => key = "adventure"
                  /\ explanation.justification.name = explain_request.destination.name
                  /\ "personality_type" \in DOMAIN explain_request.user_profile
                        => explanation.justification.personality
                               = explain_request.user_profile["personality_type"]
                  /\ "personality_type" \notin DOMAIN explain_request.user_profile
                        => explanation.justification.personality = "Traveler"

\* the collaborator's call fails for a Beach destination and a profiled user
C11_Witness ==
    /\ ~explainer.mock_mode
    /\ explain_request.reply.kind = "call_error"
    /\ explain_request.destination.category = "Beach"
    /\ explanation.raised = "none"
    /\ explanation.justification = TextOf("beach", "Relaxation Chaser", "Queenstown", <<>>)


---------------------------------------------------------------------------
(* Properties of the profiler on slider answers.                           *)

\* min(10, max(1, v))
ClampedAnswer(v) == Min2(10, Max2(1, v))

\* the answered slider questions
SliderAnswers(self, r) ==
    {q \in DOMAIN r \cap KnownIds(self) : QuestionOf(self, q).type = "slider"}

\* C21 as stated: every slider answer v adds s = min(10, max(1, v)) to its
\* first dimension and 10 - s to its second, and counts once for each.
C21_SliderAnswerClamped ==
    profile.raised # "idle" =>
        \A q \in SliderAnswers(profiler, analyzed) :
            LET question == QuestionOf(profiler, q)
                s == ClampedAnswer(analyzed[q])
            IN  /\ Points(question, analyzed[q], question.dimensions[1]) = s
                /\ Points(question, analyzed[q], question.dimensions[2]) = 10 - s
                /\ Touches(question, analyzed[q], question.dimensions[1]) = 1
                /\ Touches(question, analyzed[q], question.dimensions[2]) = 1


---------------------------------------------------------------------------
(* Properties of the classification.                                       *)

\* position of an archetype in the centroid table
CentroidIndex(self, personality) ==
    CHOOSE i \in 1..Len(self.personality_centroids) :
        self.personality_centroids[i].personality = personality

\* C22: the returned archetype is at minimal distance from the vector, every
\* archetype declared before it is strictly farther, and the returned match
\* score is at least the match score against any archetype.
C22_NearestArchetype ==
    profile.raised = "none" =>
        LET k == CentroidIndex(profiler, profile.personality_type)
            dk == Distance2(profile.dimensions, profiler.personality_centroids[k].centroid)
        IN  \A j \in 1..Len(profiler.personality_centroids) :
                LET dj == Distance2(profile.dimensions,
                                    profiler.personality_centroids[j].centroid)
                IN  /\ dk <= dj
                    /\ j < k => dk < dj
                    /\ profile.match_score
                          >= _calculate_match_score(profiler, profile.dimensions, j)

\* the vector equidistant from Luxury Escapist and Relaxation Chaser is
\* classified as Luxury Escapist, the one declared first
C22_Witness ==
    /\ profile.raised = "none"
    /\ profile.dimensions = TieVector
    /\ Distance2(TieVector, profiler.personality_centroids[3].centroid)
          = Distance2(TieVector, profiler.personality_centroids[6].centroid)
    /\ profile.personality_type = "Luxury Escapist"


---------------------------------------------------------------------------
(* Properties of the seasonal score.                                       *)

\* the seasons of season_order that best_season lists
ListedSeasons(best_season) ==
    {q[1] : q \in {x \in SeasonParts(best_season) :
                      Len(x) = 1 /\ \E i \in 1..Len(season_order) : season_order[i] = x[1]}}

\* distance of two seasons on the cycle Winter, Spring, Summer, Fall
CircularDistance(a, b) ==
    Min2(Abs(SeasonIndex(a) - SeasonIndex(b)),
         Len(season_order) - Abs(SeasonIndex(a) - SeasonIndex(b)))

\* C23 as stated: when the travel season is not listed, best_season has no
\* All / Year-round entry and lists a season, the seasonal score is 6.0 if a
\* listed season is next to the travel season on the cycle (Fall next to
\* Winter) and 3.0 otherwise.
C23_CircularAdjacency ==
    engine_raised = "none" =>
        \A i \in 1..Len(recommendations) :
            LET travel_dates == user_prefs.travel_dates
                travel_season == month_to_season(TravelMonth(travel_dates, pass_clock))
                season_parts == SeasonParts(destinations[i].best_season)
                listed == ListedSeasons(destinations[i].best_season)
            IN  (/\ travel_dates.kind # "none"
                 /\ <<travel_season>> \notin season_parts
                 /\ <<"All">> \notin season_parts
                 /\ <<"Year-round">> \notin season_parts
                 /\ listed # {})
                => recommendations[i].breakdown.seasonal_score
                     = IF \E s \in listed : CircularDistance(travel_season, s) = 1
                       THEN Num(6000) ELSE Num(3000)


---------------------------------------------------------------------------
(* Properties of the breakdown lists.                                      *)

\* the labels _identify_strengths knows, by component
StrengthLabels ==
    [budget_score |-> "Excellent budget fit",
     dna_match |-> "Perfect personality match",
     weather_score |-> "Ideal weather conditions",
     category_score |-> "Matches your interests"]

\* the components of a score dict that reach 8.0
StrongComponents(sc) == {key \in ScoreKeys : FLeq(Num(8000), sc[key])}

\* C24 as stated: primary_strengths holds one label for each of the six
\* components that reaches 8.0 and none for a component below 8.0.
C24_StrengthsCoverEveryComponent ==
    breakdown.raised = "none" =>
        LET strengths == breakdown.primary_strengths
            strong == StrongComponents(breakdown.component_scores)
        IN  /\ Len(strengths) = Cardinality(strong)
            /\ \A key \in DOMAIN StrengthLabels :
                  key \in strong
                      <=> \E i \in 1..Len(strengths) : strengths[i] = StrengthLabels[key]


---------------------------------------------------------------------------
(* Properties of the budget score below budget_min.                        *)

\* C25 as stated: among costs up to budget_min the cheaper destination never
\* scores lower, and a destination costing at most budget_min never scores
\* lower than one costing more.
C25_UnderBudgetRewarded ==
    engine_raised = "none" =>
        \A i, j \in 1..Len(recommendations) :
            LET cost_i == destinations[i].average_cost
                cost_j == destinations[j].average_cost
            IN  /\ (cost_i <= cost_j /\ cost_j <= user_prefs.budget_min)
                      => FLeq(recommendations[j].budget_score,
                              recommendations[i].budget_score)
                /\ (cost_i <= user_prefs.budget_min /\ cost_j > user_prefs.budget_min)
                      => FLeq(recommendations[j].budget_score,
                              recommendations[i].budget_score)

\* C25 amended: among costs up to budget_min the cheaper destination scores
\* strictly lower (the score falls from 10 at budget_min toward 8).
C25_UnderBudgetScoresLower ==
    engine_raised = "none" =>
        \A i, j \in 1..Len(recommendations) :
            (/\ destinations[i].average_cost < destinations[j].average_cost
             /\ destinations[j].average_cost <= user_prefs.budget_min)
            => /\ FLt(recommendations[i].budget_score, recommendations[j].budget_score)
               /\ FLt(Num(8000), recommendations[i].budget_score)
               /\ FLeq(recommendations[j].budget_score, Num(10000))

\* a pass over a destination costing a sixth of budget_min and one costing
\* a third of it: the cheaper one scores 8.33, the other 8.67
C25_Witness ==
    /\ engine_raised = "none"
    /\ user_prefs.budget_min = 30
    /\ \E i, j \in 1..Len(recommendations) :
          /\ destinations[i].average_cost = 5
          /\ destinations[j].average_cost = 10
          /\ Milli(recommendations[i].budget_score) = 8333
          /\ Milli(recommendations[j].budget_score) = 8666


---------------------------------------------------------------------------
(* Termination of an explanation call.                                     *)

\* C26 as stated: a call waiting for the collaborator eventually returns a
\* result, whether or not the collaborator answers.
C26_CallEventuallyReturns ==
    (explanation.raised = "pending") ~> (explanation.raised = "none")


---------------------------------------------------------------------------
(* Properties of the application.                                          *)

\* C27: current_step stays in 0..len(questions), the quiz is completed only
\* at current_step = len(questions), and the responses handed to
\* analyze_responses hold an answer for every question id and for no other.
C27_QuizCompleteness ==
    /\ session_state.current_step \in 0..Len(profiler.questions)
    /\ session_state.quiz_completed
          => session_state.current_step = Len(profiler.questions)
    /\ profile.raised # "idle" => DOMAIN analyzed = KnownIds(profiler)
    /\ session_state.quiz_completed
          => profile.raised # "idle" /\ analyzed = user_responses

\* the quiz completed with the sixth option everywhere and 8 on the sliders
C27_Witness ==
    /\ session_state.quiz_completed
    /\ session_state.current_step = 8
    /\ profile.raised = "none"
    /\ DOMAIN analyzed = KnownIds(profiler)
    /\ analyzed["q3_pace"] = 8
    /\ analyzed["q1_adventure"] = profiler.questions[1].options[6]
    /\ profile.personality_type = "Relaxation Chaser"

\* C28 as stated: once the quiz is completed, every recommendation request
\* hands the profile analyze_responses computed from the stored responses to
\* calculate_recommendations as travel_dna.
C28_ProfileReachesEngine ==
    [][(session_state.quiz_completed /\ app'.recommendations.given)
          => /\ user_prefs'.travel_dna.given
             /\ user_prefs'.travel_dna.dimensions = profile.dimensions]_vars

\* C29 as stated: whenever a run renders the recommendations (the session
\* flag show_recommendations is set), self.recommendations is the computed
\* list and the run does not end in the error handler of main().
C29_RecommendationsSurviveReruns ==
    session_state.show_recommendations =>
        /\ app.recommendations.given
        /\ app.recommendations.value = recommendations
        /\ app_error = "none"


---------------------------------------------------------------------------
(* Validation against scoring.                                             *)

\* C30 as stated: a pass over positive costs under preferences for which
\* validate_user_inputs returns no error raises no division by zero
\* (budget_min = budget_max = 0 and budget_min = budget_max included).
C30_ValidationSufficient ==
    (/\ engine_raised # "idle"
     /\ validate_user_inputs(user_prefs) = <<>>
     /\ \A i \in 1..Len(destinations) : destinations[i].average_cost > 0)
    => /\ engine_raised = "none"
       /\ \A i \in 1..Len(recommendations) :
             ~IsRaised(recommendations[i].budget_score)

====
